---- MODULE Spec2Model ----
(***************************************************************************)
(* State-machine model of the mounties-activity-publisher pipeline:        *)
(* search -> scrape -> publish over three Cloud Tasks queues, a Firestore  *)
(* entity store, a Discord channel, and the publishing catch-up job.       *)
(*                                                                         *)
(* A handler is one action per stretch of its code that other invocations  *)
(* cannot tell apart from a single step; it is split where a read of       *)
(* shared state is followed by a write or a send that depends on it.       *)
(***************************************************************************)
EXTENDS Integers, Sequences, FiniteSets, TLC

(***************************************************************************)
(* Bounds of the model.                                                    *)
(***************************************************************************)
\* Chat messages the channel accepts before every further send fails.
MaxMessages == 2
\* Pending work items per payload and queue.
MaxQueue == 1

\* Concurrent invocations of the publisher and of the scraper function.
Publishers == {"p1", "p2"}
Scrapers == {"s1", "s2"}

(***************************************************************************)
(* The website: two activities, the first of them also linked with a       *)
(* trailing slash.  A URL is the list of its '/'-separated pieces, so a    *)
(* trailing slash shows as a last empty piece.                             *)
(***************************************************************************)
Keys == {"a1", "a2"}

ActivityUrl(k, slash) ==
    <<"activities", k>> \o (IF slash THEN <<"">> ELSE <<>>)

URLS == {ActivityUrl(k, FALSE) : k \in Keys} \cup {ActivityUrl("a1", TRUE)}

\* The URLs of the one activity that concurrent invocations contend for.
ContendedURLS == {ActivityUrl("a1", FALSE), ActivityUrl("a1", TRUE)}

\* The listing's page size, by which the searcher advances start_index.
page_size == 20

\* The activity types a search can be asked for; the first is the default
\* of searcher_handler and the one the scheduled trigger uses.
DefaultActivityType == "Backcountry Skiing"
ActivityTypes == {DefaultActivityType, "Rock Climbing"}

\* parse_search_results on the listing page fetched for start_index: the
\* activity URLs of the page, and whether it links to a next page.  The
\* listing has two pages.
SearchPage(start_index) ==
    IF start_index = 0
    THEN [activity_urls |-> <<ActivityUrl("a1", FALSE), ActivityUrl("a2", FALSE)>>,
          next_page_url |-> TRUE]
    ELSE IF start_index = page_size
    THEN [activity_urls |-> <<ActivityUrl("a1", TRUE)>>, next_page_url |-> FALSE]
    ELSE [activity_urls |-> <<>>, next_page_url |-> FALSE]

\* The payloads of search work items: (start_index, activity_type).
SearchItems == {<<i, t>> : i \in {0, page_size}, t \in ActivityTypes}

LeaderPermalink(k) == <<"members", IF k = "a1" THEN "l1" ELSE "l2">>
PlacePermalink(k) == <<"routes-places", "cascades", "r1">>

\* str.rstrip('/') on the list of pieces: drop the trailing empty pieces.
RECURSIVE rstrip(_)
rstrip(parts) ==
    IF Len(parts) > 1 /\ parts[Len(parts)] = ""
    THEN rstrip(SubSeq(parts, 1, Len(parts) - 1))
    ELSE parts

\* Activity.document_id, Leader.document_id and the handlers' inline form:
\* permalink.rstrip('/').split('/')[-1]
document_id(permalink) == rstrip(permalink)[Len(rstrip(permalink))]

\* Place.document_id: f"{parts[-2]}_{parts[-1]}"
place_document_id(permalink) ==
    <<rstrip(permalink)[Len(rstrip(permalink)) - 1],
      rstrip(permalink)[Len(rstrip(permalink))]>>

(***************************************************************************)
(* Values of the discord_message_id field of a stored activity document.   *)
(* Missing: the document has no such field.  Null: the field is stored     *)
(* with an explicit null.  MsgId(n): the id of the n-th channel message.   *)
(***************************************************************************)
Missing == <<"missing">>
Null == <<"null">>
MsgId(n) == <<"id", n>>
NoMsg == <<"none">>

\* Python truthiness of Activity.discord_message_id after data.get(...).
IsSet(mid) == mid # Missing /\ mid # Null

VARIABLES
    activities,      \* collection 'activities': document id -> document
    leaders,         \* collection 'leaders': ids of the stored documents
    places,          \* collection 'places': ids of the stored documents
    channel,         \* Discord channel: message n is about activity channel[n]
    publish_queue,   \* publish-queue: activity id -> pending items
    scrape_queue,    \* scrape-queue: url -> pending items
    pub,             \* publisher invocations in progress
    scr,             \* scraper invocations in progress
    resp,            \* the response most recently returned by a handler
    config,          \* document system/config: the processing flag
    bookkeeping,     \* document bookkeeping/status
    search_queue,    \* search-queue: (start_index, activity_type) -> pending
    srch             \* searcher invocations in progress

vars == <<activities, leaders, places, channel, publish_queue, scrape_queue,
          pub, scr, resp, config, bookkeeping, search_queue, srch>>

store == <<activities, leaders, places>>

\* What the publisher, the scraper and the catch-up job leave alone.
search_side == <<config, bookkeeping, search_queue, srch>>

IdlePub == [pc |-> "idle", activity_id |-> "-", message_id |-> NoMsg]
IdleScr == [pc |-> "idle", url |-> <<>>]
IdleSrch == [pc |-> "idle", start_index |-> 0, activity_type |-> "-", i |-> 0,
             new_activities_count |-> 0]

\* The system/config document: absent, or a document that may or may not
\* hold the processing_enabled field.
NoConfig == [exists |-> FALSE, has_flag |-> FALSE, processing_enabled |-> FALSE]

\* The bookkeeping/status document before any search has reported.
NoBookkeeping ==
    [search_status |-> "-", last_search_success |-> "-",
     scrape_status |-> "-", last_scrape_success |-> "-",
     publish_status |-> "-", last_publish_success |-> "-"]

Searchers == {"q1"}

\* A handler's returned dict: status, activity_id and message_id where the
\* handler returns them, the two counts of the catch-up job, and three
\* notes on the invocation: arg (the url or the list of ids it was given),
\* sent (a chat message went out), fetched (a page was requested).
Response(stage, arg, status, id, mid, sent, fetched) ==
    [stage |-> stage, arg |-> arg, status |-> status, activity_id |-> id,
     message_id |-> mid, sent |-> sent, fetched |-> fetched,
     activities_found |-> 0, tasks_enqueued |-> 0, has_next_page |-> FALSE,
     error |-> <<>>]

NoResponse == Response("-", <<>>, "-", "-", NoMsg, FALSE, FALSE)

Init ==
    /\ activities = <<>>
    /\ leaders = {}
    /\ places = {}
    /\ channel = <<>>
    /\ publish_queue = [k \in Keys |-> 0]
    /\ scrape_queue = [u \in URLS |-> 0]
    /\ pub = [p \in Publishers |-> IdlePub]
    /\ scr = [s \in Scrapers |-> IdleScr]
    /\ resp = NoResponse
    /\ config = NoConfig
    /\ bookkeeping = NoBookkeeping
    /\ search_queue = [item \in SearchItems |-> 0]
    /\ srch = [q \in Searchers |-> IdleSrch]

(***************************************************************************)
(* Work queues (Cloud Tasks).  A function is invoked with a payload either *)
(* by the delivery of a pending item ("task"), which leaves the queue, or  *)
(* by an HTTP request that consumes nothing ("http"): a repeated delivery  *)
(* of an item already processed, or a direct call of the endpoint.  A      *)
(* pending item may also be lost before any delivery.                      *)
(***************************************************************************)
Sources == {"task", "http"}

\* The queue after handing one item with this payload to the function.
Delivered(queue, payload, source) ==
    IF source = "task" THEN [queue EXCEPT ![payload] = @ - 1] ELSE queue

CanDeliver(queue, payload, source) ==
    source = "http" \/ queue[payload] > 0

\* client.create_task: the item is appended to the queue.
create_task(queue, payload) == [queue EXCEPT ![payload] = @ + 1]

DropPublishTask(k) ==
    /\ publish_queue[k] > 0
    /\ publish_queue' = [publish_queue EXCEPT ![k] = @ - 1]
    /\ UNCHANGED <<store, channel, scrape_queue, pub, scr, resp, search_side>>

DropScrapeTask(u) ==
    /\ scrape_queue[u] > 0
    /\ scrape_queue' = [scrape_queue EXCEPT ![u] = @ - 1]
    /\ UNCHANGED <<store, channel, publish_queue, pub, scr, resp, search_side>>

(***************************************************************************)
(* Entity store operations (src/db).                                       *)
(***************************************************************************)
activity_exists(id) == id \in DOMAIN activities

\* {k: v for k, v in data.items() if v is not None}: a None value is left
\* out of the stored document instead of being stored as null.
omit_none(v) == IF v = Null THEN Missing ELSE v

\* The Activity built by parse_activity_detail(html, activity_url) from the
\* detail page of the activity.
parse_activity_detail(url) ==
    [activity_permalink |-> url,
     title |-> <<"title of", document_id(url)>>,
     leader |-> LeaderPermalink(document_id(url)),
     place |-> PlacePermalink(document_id(url)),
     discord_message_id |-> Null]

\* The sections of a detail page that the extractors look for; a page is
\* the set of the sections it has, each whole.
PageElements == {"title", "description", "date", "leader", "place"}

Pages == SUBSET PageElements

FullPage == PageElements

\* A parser for which the leader section is optional.
parse_error_optional_leader(page) ==
    IF "title" \notin page
    THEN <<"Could", "not", "find", "activity", "title">>
    ELSE IF "date" \notin page
    THEN <<"Could", "not", "find", "activity", "date">>
    ELSE IF "place" \notin page
    THEN <<"Could", "not", "find", "place", "name">>
    ELSE <<>>

\* The message of the ValueError that parse_activity_detail raises on the
\* page, as its words, or <<>> when it returns an Activity.  The extractors
\* run in the order title, description, date, difficulty, leader, place and
\* the first that fails ends the parse; a missing description is "".
parse_error(page) ==
    IF "title" \notin page
    THEN <<"Could", "not", "find", "activity", "title">>
    ELSE IF "date" \notin page
    THEN <<"Could", "not", "find", "activity", "date">>
    ELSE IF "leader" \notin page
    THEN <<"Could", "not", "find", "leader", "name">>
    ELSE IF "place" \notin page
    THEN <<"Could", "not", "find", "place", "name">>
    ELSE <<>>

\* The document create_activity writes for an Activity.
create_activity_data(activity) ==
    [activity_permalink |-> activity.activity_permalink,
     title |-> activity.title,
     leader_ref |-> document_id(activity.leader),
     place_ref |-> place_document_id(activity.place),
     discord_message_id |-> omit_none(activity.discord_message_id)]

\* doc_ref.update({'discord_message_id': message_id})
update_discord_message_id(id, message_id) ==
    [activities EXCEPT ![id].discord_message_id = message_id]

\* The ids of the stored activities whose message id is absent.
get_unpublished_activity_ids ==
    {id \in DOMAIN activities : ~IsSet(activities[id].discord_message_id)}

(***************************************************************************)
(* Publisher (src/functions/publisher.py).                                 *)
(***************************************************************************)
PublisherReturn(p, id, status, mid, sent) ==
    /\ pub' = [pub EXCEPT ![p] = IdlePub]
    /\ resp' = Response("publish", <<id>>, status, id, mid, sent, FALSE)

\* A publisher without the "already published" check.
already_published_never(doc) == FALSE

\* if activity.discord_message_id:
already_published(doc) == IsSet(doc.discord_message_id)

\* A publisher that skips its work item while the processing flag is stored
\* as false.
PublisherStart_gated(p, id, source) ==
    /\ pub[p].pc = "idle"
    /\ CanDeliver(publish_queue, id, source)
    /\ publish_queue' = Delivered(publish_queue, id, source)
    /\ IF config.exists /\ config.has_flag /\ ~config.processing_enabled
       THEN PublisherReturn(p, id, "skipped", NoMsg, FALSE)
       ELSE IF ~activity_exists(id)
       THEN PublisherReturn(p, id, "error", NoMsg, FALSE)
       ELSE IF activities[id].leader_ref \notin leaders
               \/ activities[id].place_ref \notin places
       THEN PublisherReturn(p, id, "error", NoMsg, FALSE)
       ELSE IF already_published(activities[id])
       THEN PublisherReturn(p, id, "skipped",
                            activities[id].discord_message_id, FALSE)
       ELSE /\ pub' = [pub EXCEPT ![p] = [IdlePub EXCEPT !.pc = "send",
                                                        !.activity_id = id]]
            /\ UNCHANGED resp
    /\ UNCHANGED <<store, channel, scrape_queue, scr, search_side>>

\* A publisher that does not check that get_activity found the activity.
PublisherStart_unchecked(p, id, source) ==
    /\ pub[p].pc = "idle"
    /\ CanDeliver(publish_queue, id, source)
    /\ publish_queue' = Delivered(publish_queue, id, source)
    /\ IF activity_exists(id) /\ already_published(activities[id])
       THEN PublisherReturn(p, id, "skipped",
                            activities[id].discord_message_id, FALSE)
       ELSE /\ pub' = [pub EXCEPT ![p] = [IdlePub EXCEPT !.pc = "send",
                                                        !.activity_id = id]]
            /\ UNCHANGED resp
    /\ UNCHANGED <<store, channel, scrape_queue, scr, search_side>>

\* The function is invoked with {'activity_id': id}: get_activity, then the
\* "already published" check.
PublisherStart(p, id, source) ==
    /\ pub[p].pc = "idle"
    /\ CanDeliver(publish_queue, id, source)
    /\ publish_queue' = Delivered(publish_queue, id, source)
    /\ IF ~activity_exists(id)
       THEN PublisherReturn(p, id, "error", NoMsg, FALSE)
       ELSE IF activities[id].leader_ref \notin leaders
               \/ activities[id].place_ref \notin places
       THEN PublisherReturn(p, id, "error", NoMsg, FALSE)
       ELSE IF already_published(activities[id])
       THEN PublisherReturn(p, id, "skipped",
                            activities[id].discord_message_id, FALSE)
       ELSE /\ pub' = [pub EXCEPT ![p] = [IdlePub EXCEPT !.pc = "send",
                                                        !.activity_id = id]]
            /\ UNCHANGED resp
    /\ UNCHANGED <<store, channel, scrape_queue, scr, search_side>>

\* A publisher that lets the exception of a failed send leave the handler.
PublisherSend_unhandled(p, ok) ==
    /\ pub[p].pc = "send"
    /\ ok => Len(channel) < MaxMessages
    /\ IF ok
       THEN /\ channel' = Append(channel, pub[p].activity_id)
            /\ pub' = [pub EXCEPT ![p].pc = "update",
                                  ![p].message_id = MsgId(Len(channel) + 1)]
            /\ UNCHANGED resp
       ELSE /\ PublisherReturn(p, pub[p].activity_id, "raised", NoMsg, FALSE)
            /\ UNCHANGED channel
    /\ UNCHANGED <<store, publish_queue, scrape_queue, scr, search_side>>

\* A publisher that sends again after a failed send, successfully.
PublisherSend_retry(p, ok) ==
    /\ pub[p].pc = "send"
    /\ Len(channel) < MaxMessages
    /\ channel' = Append(channel, pub[p].activity_id)
    /\ pub' = [pub EXCEPT ![p].pc = "update",
                          ![p].message_id = MsgId(Len(channel) + 1)]
    /\ UNCHANGED resp
    /\ UNCHANGED <<store, publish_queue, scrape_queue, scr, search_side>>

\* publish_activity_to_discord: the send succeeds and returns the new
\* message's id, or raises.
PublisherSend(p, ok) ==
    /\ pub[p].pc = "send"
    /\ ok => Len(channel) < MaxMessages
    /\ IF ok
       THEN /\ channel' = Append(channel, pub[p].activity_id)
            /\ pub' = [pub EXCEPT ![p].pc = "update",
                                  ![p].message_id = MsgId(Len(channel) + 1)]
            /\ UNCHANGED resp
       ELSE /\ PublisherReturn(p, pub[p].activity_id, "error", NoMsg, FALSE)
            /\ UNCHANGED channel
    /\ UNCHANGED <<store, publish_queue, scrape_queue, scr, search_side>>

\* update_discord_message_id, then the success response.
PublisherUpdate(p, ok) ==
    /\ pub[p].pc = "update"
    /\ IF ok /\ activity_exists(pub[p].activity_id)
       THEN /\ activities' = update_discord_message_id(pub[p].activity_id,
                                                       pub[p].message_id)
            /\ PublisherReturn(p, pub[p].activity_id, "success",
                               pub[p].message_id, TRUE)
       ELSE /\ PublisherReturn(p, pub[p].activity_id, "error", NoMsg, TRUE)
            /\ UNCHANGED activities
    /\ UNCHANGED <<leaders, places, channel, publish_queue, scrape_queue, scr,
                   search_side>>

(***************************************************************************)
(* Scraper (src/functions/scraper.py).                                     *)
(***************************************************************************)
ScraperReturn(s, url, status, fetched) ==
    /\ scr' = [scr EXCEPT ![s] = IdleScr]
    /\ resp' = Response("scrape", url, status, document_id(url), NoMsg,
                        FALSE, fetched)

\* A scraper without the existence pre-check.
ScraperStart_no_precheck(s, url, source, ok) ==
    /\ scr[s].pc = "idle"
    /\ CanDeliver(scrape_queue, url, source)
    /\ scrape_queue' = Delivered(scrape_queue, url, source)
    /\ IF ok
       THEN /\ scr' = [scr EXCEPT ![s] = [pc |-> "upsert", url |-> url]]
            /\ UNCHANGED resp
       ELSE ScraperReturn(s, url, "error", TRUE)
    /\ UNCHANGED <<store, channel, publish_queue, pub, search_side>>

\* The outer except: the handler returns status error with str(e).
ScraperError(s, url, error) ==
    /\ scr' = [scr EXCEPT ![s] = IdleScr]
    /\ resp' = [Response("scrape", url, "error", document_id(url), NoMsg,
                         FALSE, TRUE) EXCEPT !.error = error]

\* The function is invoked with activity_url = url: the existence pre-check,
\* then fetch_page, which raises when fetch_ok is false and returns the
\* page otherwise, and parse_activity_detail on the page.
ScraperFetch(s, url, source, fetch_ok, page) ==
    /\ scr[s].pc = "idle"
    /\ CanDeliver(scrape_queue, url, source)
    /\ scrape_queue' = Delivered(scrape_queue, url, source)
    /\ IF activity_exists(document_id(url))
       THEN ScraperReturn(s, url, "skipped", FALSE)
       ELSE IF ~fetch_ok
       THEN ScraperError(s, url, <<>>)
       ELSE IF parse_error(page) # <<>>
       THEN ScraperError(s, url, parse_error(page))
       ELSE /\ scr' = [scr EXCEPT ![s] = [pc |-> "upsert", url |-> url]]
            /\ UNCHANGED resp
    /\ UNCHANGED <<store, channel, publish_queue, pub, search_side>>

\* The invocation when the detail page, if it can be fetched, has every
\* element.
ScraperStart(s, url, source, ok) == ScraperFetch(s, url, source, ok, FullPage)

ScraperActivity(s) == parse_activity_detail(scr[s].url)

\* A scraper that goes on to create the activity after a failed leader or
\* place write.
ScraperUpsert_unchecked(s, leader_ok, place_ok) ==
    /\ scr[s].pc = "upsert"
    /\ leaders' = IF leader_ok
                  THEN leaders \cup {document_id(ScraperActivity(s).leader)}
                  ELSE leaders
    /\ places' = IF place_ok
                 THEN places \cup {place_document_id(ScraperActivity(s).place)}
                 ELSE places
    /\ scr' = [scr EXCEPT ![s].pc = "create"]
    /\ UNCHANGED <<activities, channel, publish_queue, scrape_queue, pub, resp,
                   search_side>>

\* create_or_update_leader(activity.leader), then
\* create_or_update_place(activity.place).  Leader and place documents are
\* only ever added, and read only through stored activities, so no other
\* invocation can tell the two writes apart from one step.
ScraperUpsert(s, leader_ok, place_ok) ==
    /\ scr[s].pc = "upsert"
    /\ leaders' = IF leader_ok
                  THEN leaders \cup {document_id(ScraperActivity(s).leader)}
                  ELSE leaders
    /\ places' = IF leader_ok /\ place_ok
                 THEN places \cup {place_document_id(ScraperActivity(s).place)}
                 ELSE places
    /\ IF leader_ok /\ place_ok
       THEN /\ scr' = [scr EXCEPT ![s].pc = "create"]
            /\ UNCHANGED resp
       ELSE ScraperReturn(s, scr[s].url, "error", TRUE)
    /\ UNCHANGED <<activities, channel, publish_queue, scrape_queue, pub,
                   search_side>>

\* A scraper that reports the lost race as a failure.
status_when_exists_error == "error"

\* What the handler returns when create_activity raises "already exists".
status_when_exists == "skipped"

\* create_activity(activity, transaction=transaction) under
\* @firestore.transactional: the existence read and the write are one atomic
\* step on the document, and an existing document raises ValueError.
create_activity_transactional(activity) ==
    IF activity_exists(document_id(activity.activity_permalink))
    THEN activities
    ELSE (document_id(activity.activity_permalink)
            :> create_activity_data(activity)) @@ activities

\* A scraper that also enqueues the publish item when it lost the creation
\* to another invocation.
ScraperCreate_enqueue_on_skip(s, ok, enqueue_ok) ==
    /\ scr[s].pc = "create"
    /\ LET id == document_id(ScraperActivity(s).activity_permalink) IN
        IF activity_exists(id)
        THEN /\ ScraperReturn(s, scr[s].url, status_when_exists, TRUE)
             /\ enqueue_ok => publish_queue[id] < MaxQueue
             /\ publish_queue' = IF enqueue_ok
                                 THEN create_task(publish_queue, id)
                                 ELSE publish_queue
             /\ UNCHANGED activities
        ELSE IF ok
        THEN /\ activities' = create_activity_transactional(ScraperActivity(s))
             /\ enqueue_ok => publish_queue[id] < MaxQueue
             /\ publish_queue' = IF enqueue_ok
                                 THEN create_task(publish_queue, id)
                                 ELSE publish_queue
             /\ ScraperReturn(s, scr[s].url, "success", TRUE)
        ELSE /\ ScraperReturn(s, scr[s].url, "error", TRUE)
             /\ UNCHANGED <<activities, publish_queue>>
    /\ UNCHANGED <<leaders, places, channel, scrape_queue, pub, search_side>>

\* A scraper for which a failed publish enqueue fails the invocation.
ScraperCreate_enqueue_fatal(s, ok, enqueue_ok) ==
    /\ scr[s].pc = "create"
    /\ LET id == document_id(ScraperActivity(s).activity_permalink) IN
        IF activity_exists(id)
        THEN /\ ScraperReturn(s, scr[s].url, status_when_exists, TRUE)
             /\ UNCHANGED <<activities, publish_queue>>
        ELSE IF ok
        THEN /\ activities' = create_activity_transactional(ScraperActivity(s))
             /\ enqueue_ok => publish_queue[id] < MaxQueue
             /\ publish_queue' = IF enqueue_ok
                                 THEN create_task(publish_queue, id)
                                 ELSE publish_queue
             /\ ScraperReturn(s, scr[s].url,
                              IF enqueue_ok THEN "success" ELSE "error", TRUE)
        ELSE /\ ScraperReturn(s, scr[s].url, "error", TRUE)
             /\ UNCHANGED <<activities, publish_queue>>
    /\ UNCHANGED <<leaders, places, channel, scrape_queue, pub, search_side>>

\* The transactional create, then enqueue_publish_task(activity_ref.id),
\* whose failure is logged and swallowed.
ScraperCreate(s, ok, enqueue_ok) ==
    /\ scr[s].pc = "create"
    /\ LET id == document_id(ScraperActivity(s).activity_permalink) IN
        IF activity_exists(id)
        THEN /\ ScraperReturn(s, scr[s].url, status_when_exists, TRUE)
             /\ UNCHANGED <<activities, publish_queue>>
        ELSE IF ok
        THEN /\ activities' = create_activity_transactional(ScraperActivity(s))
             /\ enqueue_ok => publish_queue[id] < MaxQueue
             /\ publish_queue' = IF enqueue_ok
                                 THEN create_task(publish_queue, id)
                                 ELSE publish_queue
             /\ ScraperReturn(s, scr[s].url, "success", TRUE)
        ELSE /\ ScraperReturn(s, scr[s].url, "error", TRUE)
             /\ UNCHANGED <<activities, publish_queue>>
    /\ UNCHANGED <<leaders, places, channel, scrape_queue, pub, search_side>>

(***************************************************************************)
(* Publishing catch-up (src/functions/catchup.py).  The query is the one   *)
(* read of shared state; the enqueues that follow only append to the       *)
(* publish queue, so the run is one step.  enqueued: the ids whose enqueue *)
(* succeeds.                                                               *)
(***************************************************************************)
\* A catch-up job that counts an enqueue before attempting it.
publishing_catchup_handler_counts_attempts(query_ok, enqueued) ==
    IF query_ok
    THEN /\ enqueued \subseteq get_unpublished_activity_ids
         /\ \A id \in enqueued : publish_queue[id] < MaxQueue
         /\ publish_queue' = [k \in Keys |->
                IF k \in enqueued THEN publish_queue[k] + 1
                                  ELSE publish_queue[k]]
         /\ resp' = [Response("catchup", <<>>, "success", "-", NoMsg, FALSE,
                             FALSE)
                       EXCEPT !.activities_found =
                                  Cardinality(get_unpublished_activity_ids),
                              !.tasks_enqueued =
                                  Cardinality(get_unpublished_activity_ids)]
         /\ UNCHANGED <<store, channel, scrape_queue, pub, scr, search_side>>
    ELSE /\ enqueued = {}
         /\ resp' = Response("catchup", <<>>, "error", "-", NoMsg, FALSE, FALSE)
         /\ UNCHANGED <<store, channel, publish_queue, scrape_queue, pub, scr,
                        search_side>>

\* A catch-up job whose publish items never reach the publish queue.
publishing_catchup_handler_no_enqueue(query_ok, enqueued) ==
    /\ enqueued \subseteq get_unpublished_activity_ids
    /\ resp' = [Response("catchup", <<>>, "success", "-", NoMsg, FALSE, FALSE)
                  EXCEPT !.activities_found =
                             Cardinality(get_unpublished_activity_ids),
                         !.tasks_enqueued = Cardinality(enqueued)]
    /\ UNCHANGED <<store, channel, publish_queue, scrape_queue, pub, scr,
                   search_side>>

\* A catch-up job that gives up with an error when an enqueue fails.
publishing_catchup_handler_aborts(query_ok, enqueued) ==
    IF query_ok
    THEN /\ enqueued \subseteq get_unpublished_activity_ids
         /\ \A id \in enqueued : publish_queue[id] < MaxQueue
         /\ publish_queue' = [k \in Keys |->
                IF k \in enqueued THEN publish_queue[k] + 1
                                  ELSE publish_queue[k]]
         /\ resp' = IF enqueued = get_unpublished_activity_ids
                    THEN [Response("catchup", <<>>, "success", "-", NoMsg,
                                   FALSE, FALSE)
                            EXCEPT !.activities_found =
                                       Cardinality(get_unpublished_activity_ids),
                                   !.tasks_enqueued = Cardinality(enqueued)]
                    ELSE Response("catchup", <<>>, "error", "-", NoMsg, FALSE,
                                  FALSE)
         /\ UNCHANGED <<store, channel, scrape_queue, pub, scr, search_side>>
    ELSE /\ enqueued = {}
         /\ resp' = Response("catchup", <<>>, "error", "-", NoMsg, FALSE, FALSE)
         /\ UNCHANGED <<store, channel, publish_queue, scrape_queue, pub, scr,
                        search_side>>

publishing_catchup_handler(query_ok, enqueued) ==
    IF query_ok
    THEN /\ enqueued \subseteq get_unpublished_activity_ids
         /\ \A id \in enqueued : publish_queue[id] < MaxQueue
         /\ publish_queue' = [k \in Keys |->
                IF k \in enqueued THEN publish_queue[k] + 1
                                  ELSE publish_queue[k]]
         /\ resp' = [Response("catchup", <<>>, "success", "-", NoMsg, FALSE,
                             FALSE)
                       EXCEPT !.activities_found =
                                  Cardinality(get_unpublished_activity_ids),
                              !.tasks_enqueued = Cardinality(enqueued)]
         /\ UNCHANGED <<store, channel, scrape_queue, pub, scr, search_side>>
    ELSE /\ enqueued = {}
         /\ resp' = Response("catchup", <<>>, "error", "-", NoMsg, FALSE, FALSE)
         /\ UNCHANGED <<store, channel, publish_queue, scrape_queue, pub, scr,
                        search_side>>

(***************************************************************************)
(* Processing gate (src/config.py) and the operator's pause and resume.    *)
(***************************************************************************)
DEFAULT_PROCESSING_ENABLED == TRUE

\* A gate that ignores the stored flag.
is_processing_enabled_always(read_ok) == DEFAULT_PROCESSING_ENABLED

\* A gate that answers a failed read with "disabled".
is_processing_enabled_fail_closed(read_ok) ==
    read_ok /\ (config.exists /\ config.has_flag => config.processing_enabled)

\* read_ok: the read of the config document succeeds.  A failed read is
\* caught and answered with the default.
is_processing_enabled(read_ok) ==
    IF ~read_ok
    THEN DEFAULT_PROCESSING_ENABLED
    ELSE IF config.exists
    THEN (IF config.has_flag THEN config.processing_enabled
                             ELSE DEFAULT_PROCESSING_ENABLED)
    ELSE DEFAULT_PROCESSING_ENABLED

\* A flag write that changes only a document that already holds the flag.
set_processing_enabled_existing(enabled) ==
    IF config.exists /\ config.has_flag
    THEN [exists |-> TRUE, has_flag |-> TRUE, processing_enabled |-> enabled]
    ELSE config

\* doc_ref.set({'processing_enabled': enabled, ...}, merge=True)
set_processing_enabled(enabled) ==
    [exists |-> TRUE, has_flag |-> TRUE, processing_enabled |-> enabled]

\* pause_processing_handler and resume_processing_handler: the flag write,
\* whose failure is returned as an error.
set_processing_handler(stage, enabled, ok) ==
    /\ config' = IF ok THEN set_processing_enabled(enabled) ELSE config
    /\ resp' = Response(stage, <<>>, IF ok THEN "success" ELSE "error", "-",
                        NoMsg, FALSE, FALSE)
    /\ UNCHANGED <<store, channel, publish_queue, scrape_queue, pub, scr,
                   bookkeeping, search_queue, srch>>

pause_processing_handler(ok) == set_processing_handler("pause", FALSE, ok)
resume_processing_handler(ok) == set_processing_handler("resume", TRUE, ok)

(***************************************************************************)
(* The operator's drain (src/functions/drain_queues.py).                   *)
(***************************************************************************)
\* client.purge_queue(name=queue_path): every pending item is removed.
purge_queue(queue) == [payload \in DOMAIN queue |-> 0]

\* A drain that purges the publish queue as well.
drain_queues_handler_purges_all(search_ok, scrape_ok) ==
    /\ search_queue' = IF search_ok THEN purge_queue(search_queue)
                                    ELSE search_queue
    /\ scrape_queue' = IF search_ok /\ scrape_ok THEN purge_queue(scrape_queue)
                                                 ELSE scrape_queue
    /\ publish_queue' = IF search_ok /\ scrape_ok
                        THEN purge_queue(publish_queue) ELSE publish_queue
    /\ resp' = Response("drain_queues", <<>>,
                        IF search_ok /\ scrape_ok THEN "success" ELSE "error",
                        "-", NoMsg, FALSE, FALSE)
    /\ UNCHANGED <<store, channel, pub, scr, config, bookkeeping, srch>>

\* drain_queues_handler: the search queue is purged, then the scrape queue.
\* search_ok, scrape_ok: the purge succeeds.  A failed purge raises into
\* the handler's except, which returns the error; the scrape queue is not
\* reached when the purge of the search queue failed.
drain_queues_handler(search_ok, scrape_ok) ==
    /\ search_queue' = IF search_ok THEN purge_queue(search_queue)
                                    ELSE search_queue
    /\ scrape_queue' = IF search_ok /\ scrape_ok THEN purge_queue(scrape_queue)
                                                 ELSE scrape_queue
    /\ resp' = Response("drain_queues", <<>>,
                        IF search_ok /\ scrape_ok THEN "success" ELSE "error",
                        "-", NoMsg, FALSE, FALSE)
    /\ UNCHANGED <<store, channel, publish_queue, pub, scr, config,
                   bookkeeping, srch>>

(***************************************************************************)
(* Searcher (src/functions/searcher.py).                                   *)
(***************************************************************************)
\* A health recorder that stamps the last success on every update.
update_search_status_always_stamps(status, success, ok) ==
    IF ~ok
    THEN bookkeeping
    ELSE [bookkeeping EXCEPT !.search_status = status,
                             !.last_search_success = "SERVER_TIMESTAMP"]

\* update_search_status(status, success): a merge into the bookkeeping
\* document; a failed write (ok false) is logged and swallowed.
update_search_status(status, success, ok) ==
    IF ~ok
    THEN bookkeeping
    ELSE [bookkeeping EXCEPT
            !.search_status = status,
            !.last_search_success = IF success THEN "SERVER_TIMESTAMP" ELSE @]

\* A scrape health update written without merge: the fields of the other
\* stages are dropped from the document.
update_scrape_status_overwrite(status, success, ok) ==
    IF ~ok
    THEN bookkeeping
    ELSE [NoBookkeeping EXCEPT
            !.scrape_status = status,
            !.last_scrape_success = IF success THEN "SERVER_TIMESTAMP" ELSE @]

\* update_scrape_status(status, success): the same merge for the scraper's
\* fields.
update_scrape_status(status, success, ok) ==
    IF ~ok
    THEN bookkeeping
    ELSE [bookkeeping EXCEPT
            !.scrape_status = status,
            !.last_scrape_success = IF success THEN "SERVER_TIMESTAMP" ELSE @]

\* update_publish_status(status, success): the same merge for the
\* publisher's fields.
update_publish_status(status, success, ok) ==
    IF ~ok
    THEN bookkeeping
    ELSE [bookkeeping EXCEPT
            !.publish_status = status,
            !.last_publish_success = IF success THEN "SERVER_TIMESTAMP" ELSE @]

\* The status messages the callers pass.
HealthStatuses == {"Green", "Red"}

\* A call of update_scrape_status or update_publish_status.
UpdateScrapeStatus(status, success, ok) ==
    /\ bookkeeping' = update_scrape_status(status, success, ok)
    /\ UNCHANGED <<store, channel, publish_queue, scrape_queue, pub, scr, resp,
                   config, search_queue, srch>>

UpdatePublishStatus(status, success, ok) ==
    /\ bookkeeping' = update_publish_status(status, success, ok)
    /\ UNCHANGED <<store, channel, publish_queue, scrape_queue, pub, scr, resp,
                   config, search_queue, srch>>

SearcherReturn(q, start_index, activity_type, status, fetched) ==
    /\ srch' = [srch EXCEPT ![q] = IdleSrch]
    /\ resp' = [Response("search", <<start_index, activity_type>>, status, "-",
                         NoMsg, FALSE, fetched)
                  EXCEPT !.activities_found =
                            IF status = "success"
                            THEN Len(SearchPage(start_index).activity_urls)
                            ELSE 0,
                         !.has_next_page =
                            status = "success"
                            /\ SearchPage(start_index).next_page_url]

\* The function is invoked with (start_index, activity_type): the gate
\* check, then fetch_search_results and parse_search_results.  A failed
\* fetch is reported "Red" to the bookkeeping and returned as an error.
\* fetch_ok and bk_ok are true where the fetch or the bookkeeping write they
\* stand for is not reached.
SearcherStart(q, start_index, activity_type, source, read_ok, fetch_ok, bk_ok) ==
    /\ srch[q].pc = "idle"
    /\ CanDeliver(search_queue, <<start_index, activity_type>>, source)
    /\ search_queue' =
            Delivered(search_queue, <<start_index, activity_type>>, source)
    /\ IF ~is_processing_enabled(read_ok)
       THEN /\ fetch_ok /\ bk_ok
            /\ SearcherReturn(q, start_index, activity_type, "skipped", FALSE)
            /\ UNCHANGED bookkeeping
       ELSE IF fetch_ok
       THEN /\ bk_ok
            /\ srch' = [srch EXCEPT ![q] =
                            [pc |-> "scan", start_index |-> start_index,
                             activity_type |-> activity_type, i |-> 1,
                             new_activities_count |-> 0]]
            /\ UNCHANGED <<resp, bookkeeping>>
       ELSE /\ SearcherReturn(q, start_index, activity_type, "error", TRUE)
            /\ bookkeeping' = update_search_status("Red", FALSE, bk_ok)
    /\ UNCHANGED <<store, channel, publish_queue, scrape_queue, pub, scr, config>>

\* A searcher whose key keeps the trailing slash of the URL.
searcher_activity_id_keeps_slash(url) == url[Len(url)]

\* activity_id = url.rstrip('/').split('/')[-1], the key of the searcher's
\* existence check.
searcher_activity_id(url) == document_id(url)

\* A searcher that enqueues every listed URL without the existence check.
SearcherScan_no_exists_check(q, exists_ok, enqueue_ok, bk_ok) ==
    /\ srch[q].pc = "scan"
    /\ srch[q].i <= Len(SearchPage(srch[q].start_index).activity_urls)
    /\ exists_ok /\ bk_ok
    /\ LET url == SearchPage(srch[q].start_index).activity_urls[srch[q].i] IN
        /\ enqueue_ok => scrape_queue[url] < MaxQueue
        /\ scrape_queue' = IF enqueue_ok
                           THEN create_task(scrape_queue, url)
                           ELSE scrape_queue
    /\ srch' = [srch EXCEPT ![q].i = @ + 1,
                            ![q].new_activities_count =
                                IF enqueue_ok THEN @ + 1 ELSE @]
    /\ UNCHANGED <<store, channel, publish_queue, pub, scr, config, search_queue,
                   bookkeeping, resp>>

\* A searcher whose failed scrape enqueue is not caught in the loop.
SearcherScan_enqueue_raises(q, exists_ok, enqueue_ok, bk_ok) ==
    /\ srch[q].pc = "scan"
    /\ srch[q].i <= Len(SearchPage(srch[q].start_index).activity_urls)
    /\ LET url == SearchPage(srch[q].start_index).activity_urls[srch[q].i] IN
        IF ~exists_ok \/ (~activity_exists(document_id(url)) /\ ~enqueue_ok)
        THEN /\ bookkeeping' = update_search_status("Red", FALSE, bk_ok)
             /\ SearcherReturn(q, srch[q].start_index, srch[q].activity_type,
                               "error", TRUE)
             /\ UNCHANGED scrape_queue
        ELSE IF activity_exists(document_id(url))
        THEN /\ bk_ok
             /\ srch' = [srch EXCEPT ![q].i = @ + 1]
             /\ UNCHANGED <<scrape_queue, bookkeeping, resp>>
        ELSE /\ bk_ok
             /\ scrape_queue[url] < MaxQueue
             /\ scrape_queue' = create_task(scrape_queue, url)
             /\ srch' = [srch EXCEPT ![q].i = @ + 1,
                                     ![q].new_activities_count = @ + 1]
             /\ UNCHANGED <<bookkeeping, resp>>
    /\ UNCHANGED <<store, channel, publish_queue, pub, scr, config, search_queue>>

\* One round of "for url in activity_urls": the existence check and, for an
\* activity not stored, enqueue_scrape_task(url), whose failure is logged
\* and swallowed.  A failed existence read (exists_ok false) is not caught
\* in the loop: it ends the invocation in the handler's except branch.
SearcherScan(q, exists_ok, enqueue_ok, bk_ok) ==
    /\ srch[q].pc = "scan"
    /\ srch[q].i <= Len(SearchPage(srch[q].start_index).activity_urls)
    /\ LET url == SearchPage(srch[q].start_index).activity_urls[srch[q].i] IN
        IF ~exists_ok
        THEN /\ enqueue_ok
             /\ bookkeeping' = update_search_status("Red", FALSE, bk_ok)
             /\ SearcherReturn(q, srch[q].start_index, srch[q].activity_type,
                               "error", TRUE)
             /\ UNCHANGED scrape_queue
        ELSE IF activity_exists(searcher_activity_id(url))
        THEN /\ enqueue_ok /\ bk_ok
             /\ srch' = [srch EXCEPT ![q].i = @ + 1]
             /\ UNCHANGED <<scrape_queue, bookkeeping, resp>>
        ELSE /\ bk_ok
             /\ enqueue_ok => scrape_queue[url] < MaxQueue
             /\ scrape_queue' = IF enqueue_ok
                                THEN create_task(scrape_queue, url)
                                ELSE scrape_queue
             /\ srch' = [srch EXCEPT
                            ![q].i = @ + 1,
                            ![q].new_activities_count =
                                IF enqueue_ok THEN @ + 1 ELSE @]
             /\ UNCHANGED <<bookkeeping, resp>>
    /\ UNCHANGED <<store, channel, publish_queue, pub, scr, config, search_queue>>

\* A searcher that advances the continuation by the number of new URLs.
SearcherFinish_by_new_count(q, enqueue_ok, bk_ok) ==
    /\ srch[q].pc = "scan"
    /\ srch[q].i > Len(SearchPage(srch[q].start_index).activity_urls)
    /\ LET next == <<IF srch[q].new_activities_count = 0
                     THEN srch[q].start_index
                     ELSE srch[q].start_index + page_size,
                     srch[q].activity_type>> IN
        IF SearchPage(srch[q].start_index).next_page_url
        THEN /\ enqueue_ok => search_queue[next] < MaxQueue
             /\ search_queue' = IF enqueue_ok
                                THEN create_task(search_queue, next)
                                ELSE search_queue
        ELSE /\ enqueue_ok
             /\ UNCHANGED search_queue
    /\ bookkeeping' = update_search_status("Green", TRUE, bk_ok)
    /\ SearcherReturn(q, srch[q].start_index, srch[q].activity_type, "success",
                      TRUE)
    /\ UNCHANGED <<store, channel, publish_queue, scrape_queue, pub, scr, config>>

\* A searcher for which a failed bookkeeping write fails the invocation.
SearcherFinish_bookkeeping_fatal(q, enqueue_ok, bk_ok) ==
    /\ srch[q].pc = "scan"
    /\ srch[q].i > Len(SearchPage(srch[q].start_index).activity_urls)
    /\ LET next == <<srch[q].start_index + page_size, srch[q].activity_type>> IN
        IF SearchPage(srch[q].start_index).next_page_url
        THEN /\ enqueue_ok => search_queue[next] < MaxQueue
             /\ search_queue' = IF enqueue_ok
                                THEN create_task(search_queue, next)
                                ELSE search_queue
        ELSE /\ enqueue_ok
             /\ UNCHANGED search_queue
    /\ bookkeeping' = update_search_status("Green", TRUE, bk_ok)
    /\ SearcherReturn(q, srch[q].start_index, srch[q].activity_type,
                      IF bk_ok THEN "success" ELSE "error", TRUE)
    /\ UNCHANGED <<store, channel, publish_queue, scrape_queue, pub, scr, config>>

\* A searcher whose continuation asks for the page it has just processed.
SearcherFinish_same_page(q, enqueue_ok, bk_ok) ==
    /\ srch[q].pc = "scan"
    /\ srch[q].i > Len(SearchPage(srch[q].start_index).activity_urls)
    /\ LET next == <<srch[q].start_index, srch[q].activity_type>> IN
        IF SearchPage(srch[q].start_index).next_page_url
        THEN /\ enqueue_ok => search_queue[next] < MaxQueue
             /\ search_queue' = IF enqueue_ok
                                THEN create_task(search_queue, next)
                                ELSE search_queue
        ELSE /\ enqueue_ok
             /\ UNCHANGED search_queue
    /\ bookkeeping' = update_search_status("Green", TRUE, bk_ok)
    /\ SearcherReturn(q, srch[q].start_index, srch[q].activity_type, "success",
                      TRUE)
    /\ UNCHANGED <<store, channel, publish_queue, scrape_queue, pub, scr, config>>

\* After the loop: enqueue_search_task(start_index + 20, activity_type) when
\* the page links to a next one (a failure is logged and swallowed), then
\* update_search_status("Green", success=True) and the success response.
SearcherFinish(q, enqueue_ok, bk_ok) ==
    /\ srch[q].pc = "scan"
    /\ srch[q].i > Len(SearchPage(srch[q].start_index).activity_urls)
    /\ LET next == <<srch[q].start_index + page_size, srch[q].activity_type>> IN
        IF SearchPage(srch[q].start_index).next_page_url
        THEN /\ enqueue_ok => search_queue[next] < MaxQueue
             /\ search_queue' = IF enqueue_ok
                                THEN create_task(search_queue, next)
                                ELSE search_queue
        ELSE /\ enqueue_ok
             /\ UNCHANGED search_queue
    /\ bookkeeping' = update_search_status("Green", TRUE, bk_ok)
    /\ SearcherReturn(q, srch[q].start_index, srch[q].activity_type, "success",
                      TRUE)
    /\ UNCHANGED <<store, channel, publish_queue, scrape_queue, pub, scr, config>>

DropSearchTask(item) ==
    /\ search_queue[item] > 0
    /\ search_queue' = [search_queue EXCEPT ![item] = @ - 1]
    /\ UNCHANGED <<store, channel, publish_queue, scrape_queue, pub, scr, resp,
                   config, bookkeeping, srch>>

(***************************************************************************)
(* The activity operations of src/db/activities.py called directly, one    *)
(* call at a time, with the result of the call in resp: "returned", or     *)
(* "raised" with the words of the ValueError.                              *)
(***************************************************************************)
\* The Activity objects the operations are called with: a scraped activity,
\* possibly with an edited title, with or without a message id.
ActivityObjects ==
    {[parse_activity_detail(url) EXCEPT
            !.title = <<t, document_id(url)>>,
            !.discord_message_id = m] :
        url \in URLS, t \in {"title of", "new title of"},
        m \in {Null, MsgId(1)}}

ApiReturn(op, id, status, error) ==
    resp' = [Response(op, <<>>, status, id, NoMsg, FALSE, FALSE)
                EXCEPT !.error = error]

\* create_activity(activity): raises if the document exists, else writes
\* it.
create_activity(activity) ==
    /\ LET id == document_id(activity.activity_permalink) IN
        IF activity_exists(id)
        THEN /\ ApiReturn("create_activity", id, "raised",
                          <<"Activity", id, "already", "exists">>)
             /\ UNCHANGED activities
        ELSE /\ activities' = (id :> create_activity_data(activity))
                                    @@ activities
             /\ ApiReturn("create_activity", id, "returned", <<>>)
    /\ UNCHANGED <<leaders, places, channel, publish_queue, scrape_queue, pub,
                   scr, search_side>>

\* An update that creates the document when it does not exist.
update_activity_upsert(activity) ==
    /\ LET id == document_id(activity.activity_permalink) IN
        /\ activities' = (id :> create_activity_data(activity)) @@
                            [k \in DOMAIN activities \ {id} |-> activities[k]]
        /\ ApiReturn("update_activity", id, "returned", <<>>)
    /\ UNCHANGED <<leaders, places, channel, publish_queue, scrape_queue, pub,
                   scr, search_side>>

\* update_activity(activity): raises if the document does not exist, else
\* doc_ref.set(data) replaces the stored document with the activity's
\* fields that are not None.
update_activity(activity) ==
    /\ LET id == document_id(activity.activity_permalink) IN
        IF ~activity_exists(id)
        THEN /\ ApiReturn("update_activity", id, "raised",
                          <<"Activity", id, "does", "not", "exist">>)
             /\ UNCHANGED activities
        ELSE /\ activities' =
                    [activities EXCEPT ![id] = create_activity_data(activity)]
             /\ ApiReturn("update_activity", id, "returned", <<>>)
    /\ UNCHANGED <<leaders, places, channel, publish_queue, scrape_queue, pub,
                   scr, search_side>>

\* update_discord_message_id(document_id, message_id) with its existence
\* check.
UpdateDiscordMessageId(id, message_id) ==
    /\ IF ~activity_exists(id)
       THEN /\ ApiReturn("update_discord_message_id", id, "raised",
                         <<"Activity", id, "does", "not", "exist">>)
            /\ UNCHANGED activities
       ELSE /\ activities' = update_discord_message_id(id, message_id)
            /\ ApiReturn("update_discord_message_id", id, "returned", <<>>)
    /\ UNCHANGED <<leaders, places, channel, publish_queue, scrape_queue, pub,
                   scr, search_side>>

StoreNext ==
    \/ \E activity \in ActivityObjects : create_activity(activity)
    \/ \E activity \in ActivityObjects : update_activity(activity)
    \/ \E id \in Keys, n \in 1..MaxMessages :
            UpdateDiscordMessageId(id, MsgId(n))

StoreSpec == Init /\ [][StoreNext]_vars

(***************************************************************************)
(* Work items without their required field.  A payload is the set of the   *)
(* fields it has; it reaches the handler through the HTTP entry point,     *)
(* which passes request.get_json(silent=True) or {} on.                    *)
(***************************************************************************)
ItemFields == {"activity_url", "activity_id", "start_index"}

ScrapeItemsWithoutUrl == SUBSET (ItemFields \ {"activity_url"})

PublishItemsWithoutId == SUBSET (ItemFields \ {"activity_id"})

\* Python truthiness of a dict: not payload.
falsy(payload) == payload = {}

\* payload.get(field) is None
get_is_none(payload, field) == field \notin payload

\* A scraper without the outer except: the AttributeError leaves the
\* handler.
ScraperMalformed_unhandled(s, payload) ==
    /\ scr[s].pc = "idle"
    /\ scr' = [scr EXCEPT ![s] = IdleScr]
    /\ resp' = [Response("scrape", <<>>,
                         IF falsy(payload) THEN "error" ELSE "raised",
                         "-", NoMsg, FALSE, FALSE)
                EXCEPT !.error =
                    IF falsy(payload)
                    THEN <<"Missing", "required", "parameter", "activity_url">>
                    ELSE <<"dict", "object", "has", "no", "attribute",
                           "rstrip">>]
    /\ UNCHANGED <<store, channel, publish_queue, scrape_queue, pub,
                   search_side>>

\* scraper_handler on a payload without activity_url: an empty payload is
\* refused by "if not activity_url"; any other fails at
\* activity_url.rstrip('/') with an AttributeError that the outer except
\* turns into an error result.  Either way the handler returns before
\* activity_exists.
ScraperMalformed(s, payload) ==
    /\ scr[s].pc = "idle"
    /\ scr' = [scr EXCEPT ![s] = IdleScr]
    /\ resp' = [Response("scrape", <<>>, "error", "-", NoMsg, FALSE, FALSE)
                EXCEPT !.error =
                    IF falsy(payload)
                    THEN <<"Missing", "required", "parameter", "activity_url">>
                    ELSE <<"dict", "object", "has", "no", "attribute",
                           "rstrip">>]
    /\ UNCHANGED <<store, channel, publish_queue, scrape_queue, pub,
                   search_side>>

\* publisher_handler on a payload without activity_id:
\* request_json.get('activity_id') is None and the handler returns the
\* error result before get_activity.
PublisherMalformed(p, payload) ==
    /\ pub[p].pc = "idle"
    /\ get_is_none(payload, "activity_id")
    /\ pub' = [pub EXCEPT ![p] = IdlePub]
    /\ resp' = [Response("publish", <<>>, "error", "-", NoMsg, FALSE, FALSE)
                EXCEPT !.error = <<"Missing", "required", "parameter",
                                   "activity_id">>]
    /\ UNCHANGED <<store, channel, publish_queue, scrape_queue, scr,
                   search_side>>

(***************************************************************************)
(* The deployed functions (src/main.py) and the items they are sent        *)
(* (src/tasks/client.py).  A Python value is written with its type:        *)
(* <<"int", n>>, <<"str", s>>, <<"None">>, and a dict as <<"dict">>         *)
(* followed by its <<key, value>> pairs.                                   *)
(***************************************************************************)
PyInt(n) == <<"int", n>>
PyStr(s) == <<"str", s>>
PyNone == <<"None">>
PyDict(pairs) == <<"dict">> \o pairs

is_int(v) == v[1] = "int"
is_str(v) == v[1] = "str"

\* d.get(key)
get(d, key) ==
    LET hits == {i \in 2..Len(d) : d[i][1] = key} IN
    IF hits = {} THEN PyNone ELSE d[CHOOSE i \in hits : TRUE][2]

\* The payloads built by enqueue_search_task, enqueue_scrape_task and
\* enqueue_publish_task.
search_payload(start_index, activity_type) ==
    PyDict(<< <<"start_index", PyInt(start_index)>>,
              <<"activity_type", PyStr(activity_type)>> >>)

scrape_payload(activity_url) ==
    PyDict(<< <<"activity_url", PyStr(activity_url)>> >>)

publish_payload(activity_id) ==
    PyDict(<< <<"activity_id", PyStr(activity_id)>> >>)

\* 'body': json.dumps(payload).encode()
task_body(payload) == <<"json", payload>>

\* request.get_json(silent=True) or {}
get_json(body) ==
    IF Len(body) = 2 /\ body[1] = "json" THEN body[2] ELSE PyDict(<<>>)

\* The three enqueue functions called on their own: client.create_task
\* appends the item.
enqueue_search_task(start_index, activity_type) ==
    /\ search_queue[<<start_index, activity_type>>] < MaxQueue
    /\ search_queue' = create_task(search_queue, <<start_index, activity_type>>)
    /\ UNCHANGED <<store, channel, publish_queue, scrape_queue, pub, scr, resp,
                   config, bookkeeping, srch>>

enqueue_scrape_task(activity_url) ==
    /\ scrape_queue[activity_url] < MaxQueue
    /\ scrape_queue' = create_task(scrape_queue, activity_url)
    /\ UNCHANGED <<store, channel, publish_queue, pub, scr, resp, search_side>>

enqueue_publish_task(activity_id) ==
    /\ publish_queue[activity_id] < MaxQueue
    /\ publish_queue' = create_task(publish_queue, activity_id)
    /\ UNCHANGED <<store, channel, scrape_queue, pub, scr, resp, search_side>>

\* The URLs of a listing page whose activities are not stored.
new_activity_urls(page) ==
    {page.activity_urls[i] : i \in 1..Len(page.activity_urls)}
        \ {u \in URLS : activity_exists(searcher_activity_id(u))}

\* searcher(request): searcher_handler(request_json), so the handler's
\* first parameter, start_index, is the whole payload and activity_type
\* keeps its default.  After the gate, fetch_search_results puts both in
\* the query, and what the website answers to an offset that is no number
\* is its own matter: an error (fetch_ok false), or one of its pages
\* (answered).  The handler enqueues the new activities of that page; with
\* a next page it then computes start_index + 20, a TypeError on a dict
\* that the handler's except reports and returns.
searcher(q, item, source, fetch_ok, answered) ==
    /\ srch[q].pc = "idle"
    /\ CanDeliver(search_queue, item, source)
    /\ search_queue' = Delivered(search_queue, item, source)
    /\ LET request_json == get_json(task_body(search_payload(item[1], item[2])))
           start_index == request_json
           activity_type == PyStr(DefaultActivityType)
           page == SearchPage(answered)
           Return(status, fetched) ==
               resp' = [Response("search", <<start_index, activity_type>>,
                                 status, "-", NoMsg, FALSE, fetched)
                          EXCEPT !.activities_found =
                                    IF status = "success"
                                    THEN Len(page.activity_urls) ELSE 0]
       IN
        IF ~is_processing_enabled(TRUE)
        THEN /\ fetch_ok /\ answered = 0
             /\ Return("skipped", FALSE)
             /\ UNCHANGED <<scrape_queue, bookkeeping>>
        ELSE IF ~fetch_ok
        THEN /\ answered = 0
             /\ Return("error", TRUE)
             /\ bookkeeping' = update_search_status("Red", FALSE, TRUE)
             /\ UNCHANGED scrape_queue
        ELSE /\ \A u \in new_activity_urls(page) : scrape_queue[u] < MaxQueue
             /\ scrape_queue' =
                    [u \in URLS |->
                        IF u \in new_activity_urls(page)
                        THEN scrape_queue[u] + 1 ELSE scrape_queue[u]]
             /\ IF page.next_page_url /\ ~is_int(start_index)
                THEN /\ Return("error", TRUE)
                     /\ bookkeeping' = update_search_status("Red", FALSE, TRUE)
                ELSE /\ Return("success", TRUE)
                     /\ bookkeeping' = update_search_status("Green", TRUE, TRUE)
    /\ UNCHANGED <<store, channel, publish_queue, pub, scr, config, srch>>

\* scraper(request): scraper_handler(request_json), so activity_url is the
\* payload, a dict that is not empty: it passes "if not activity_url" and
\* fails at activity_url.rstrip('/') with an AttributeError, which the
\* handler's except returns as an error before any read, fetch or write.
scraper(s, url, source) ==
    /\ scr[s].pc = "idle"
    /\ CanDeliver(scrape_queue, url, source)
    /\ scrape_queue' = Delivered(scrape_queue, url, source)
    /\ LET request_json == get_json(task_body(scrape_payload(url)))
           activity_url == request_json
       IN  /\ ~is_str(activity_url)
           /\ resp' = [Response("scrape", activity_url, "error", "-", NoMsg,
                                FALSE, FALSE)
                        EXCEPT !.error = <<"dict", "object", "has", "no",
                                           "attribute", "rstrip">>]
    /\ UNCHANGED <<store, channel, publish_queue, pub, scr, search_side>>

\* publisher(request): publisher_handler(request_json), which reads
\* request_json.get('activity_id') itself.
publisher(p, id, source) ==
    LET request_json == get_json(task_body(publish_payload(id)))
        activity_id == get(request_json, "activity_id")
    IN  /\ is_str(activity_id)
        /\ PublisherStart(p, activity_id[2], source)

Publisher(p) ==
    \/ \E id \in Keys, source \in Sources : PublisherStart(p, id, source)
    \/ \E ok \in BOOLEAN : PublisherSend(p, ok)
    \/ \E ok \in BOOLEAN : PublisherUpdate(p, ok)

Scraper(s) ==
    \/ \E url \in ContendedURLS, source \in Sources, ok \in BOOLEAN :
            ScraperStart(s, url, source, ok)
    \/ \E leader_ok, place_ok \in BOOLEAN : ScraperUpsert(s, leader_ok, place_ok)
    \/ \E ok, enqueue_ok \in BOOLEAN : ScraperCreate(s, ok, enqueue_ok)

Catchup ==
    \E query_ok \in BOOLEAN, enqueued \in SUBSET Keys :
        publishing_catchup_handler(query_ok, enqueued)

QueueLoss == \E k \in Keys : DropPublishTask(k)

Next ==
    \/ \E p \in Publishers : Publisher(p)
    \/ \E s \in Scrapers : Scraper(s)
    \/ Catchup
    \/ QueueLoss

Spec == Init /\ [][Next]_vars

(***************************************************************************)
(* The handlers of Spec, called also with work items that lack their       *)
(* required field.                                                         *)
(***************************************************************************)
Malformed ==
    \/ \E s \in Scrapers, payload \in ScrapeItemsWithoutUrl :
            ScraperMalformed(s, payload)
    \/ \E p \in Publishers, payload \in PublishItemsWithoutId :
            PublisherMalformed(p, payload)

ItemsNext ==
    \/ \E p \in Publishers : Publisher(p)
    \/ \E s \in Scrapers : Scraper(s)
    \/ Malformed

ItemsSpec == Init /\ [][ItemsNext]_vars

(***************************************************************************)
(* The same handlers invoked one at a time: an invocation starts only when *)
(* no other invocation is in progress.                                     *)
(***************************************************************************)
AllIdle ==
    /\ \A p \in Publishers : pub[p].pc = "idle"
    /\ \A s \in Scrapers : scr[s].pc = "idle"

SeqNext ==
    \/ AllIdle /\ \E id \in Keys, source \in Sources :
                        PublisherStart("p1", id, source)
    \/ \E ok \in BOOLEAN : PublisherSend("p1", ok)
    \/ \E ok \in BOOLEAN : PublisherUpdate("p1", ok)
    \/ AllIdle /\ \E url \in URLS, source \in Sources, ok \in BOOLEAN :
                        ScraperStart("s1", url, source, ok)
    \/ \E leader_ok, place_ok \in BOOLEAN :
            ScraperUpsert("s1", leader_ok, place_ok)
    \/ \E ok, enqueue_ok \in BOOLEAN : ScraperCreate("s1", ok, enqueue_ok)
    \/ AllIdle /\ Catchup
    \/ QueueLoss

SeqSpec == Init /\ [][SeqNext]_vars

(***************************************************************************)
(* The pipeline as deployed, with the scheduling the platform provides:    *)
(* scrape requests arrive, publish items are delivered from the publish    *)
(* queue or lost, and the catch-up job runs on its timer.  Fairness: the   *)
(* catch-up job keeps running with its query and its enqueues succeeding,  *)
(* pending publish items keep being delivered, and the chat send keeps     *)
(* succeeding.  The store write that follows a send succeeds here (C2 is   *)
(* about its failure), so an activity takes one message of the channel.    *)
(***************************************************************************)
CatchupAllEnqueued ==
    publishing_catchup_handler(TRUE, get_unpublished_activity_ids)

PublishDelivery == \E id \in Keys : PublisherStart("p1", id, "task")

FairNext ==
    \/ PublishDelivery
    \/ \E ok \in BOOLEAN : PublisherSend("p1", ok)
    \/ PublisherUpdate("p1", TRUE)
    \/ \E url \in URLS, ok \in BOOLEAN : ScraperStart("s1", url, "http", ok)
    \/ \E leader_ok, place_ok \in BOOLEAN :
            ScraperUpsert("s1", leader_ok, place_ok)
    \/ \E ok, enqueue_ok \in BOOLEAN : ScraperCreate("s1", ok, enqueue_ok)
    \/ Catchup
    \/ \E k \in Keys : DropPublishTask(k)

FairSpec ==
    /\ Init
    /\ [][FairNext]_vars
    /\ SF_vars(CatchupAllEnqueued)
    /\ SF_vars(PublishDelivery)
    /\ SF_vars(PublisherSend("p1", TRUE))
    /\ SF_vars(PublisherUpdate("p1", TRUE))

(***************************************************************************)
(* Discovery: search requests arrive from the scheduler or from the search *)
(* queue, the operator pauses and resumes, and one scraper works off the   *)
(* scrape queue.  The scraper is here as the source of stored activities,  *)
(* which is all the searcher reads of its work: its fetches and writes     *)
(* succeed.  DiscoverySpec leaves the operator and the loss of items out   *)
(* and has every failure of the searcher's collaborators; SearchSpec has   *)
(* the operator and the loss of items, with the searcher's existence reads *)
(* and bookkeeping writes succeeding.                                      *)
(***************************************************************************)
\* types: the activity types that search requests are made for.
SearcherFor(q, types) ==
    \/ \E item \in SearchItems, source \in Sources,
          read_ok, fetch_ok, bk_ok \in BOOLEAN :
            /\ item[2] \in types
            /\ SearcherStart(q, item[1], item[2], source, read_ok, fetch_ok, bk_ok)
    \/ \E exists_ok, enqueue_ok, bk_ok \in BOOLEAN :
            SearcherScan(q, exists_ok, enqueue_ok, bk_ok)
    \/ \E enqueue_ok, bk_ok \in BOOLEAN : SearcherFinish(q, enqueue_ok, bk_ok)

Searcher(q) == SearcherFor(q, {DefaultActivityType})

Operator ==
    \/ \E ok \in BOOLEAN : pause_processing_handler(ok)
    \/ \E ok \in BOOLEAN : resume_processing_handler(ok)

ScrapeDelivery ==
    \/ \E url \in URLS : ScraperStart("s1", url, "task", TRUE)
    \/ ScraperUpsert("s1", TRUE, TRUE)
    \/ ScraperCreate("s1", TRUE, TRUE)

DiscoveryNext ==
    \/ \E q \in Searchers : Searcher(q)
    \/ ScrapeDelivery

DiscoverySpec == Init /\ [][DiscoveryNext]_vars

SearchNext ==
    \/ \E q \in Searchers, item \in SearchItems, source \in Sources,
          read_ok, fetch_ok \in BOOLEAN :
            /\ item[2] = DefaultActivityType
            /\ SearcherStart(q, item[1], item[2], source, read_ok, fetch_ok, TRUE)
    \/ \E q \in Searchers, enqueue_ok \in BOOLEAN :
            SearcherScan(q, TRUE, enqueue_ok, TRUE)
    \/ \E q \in Searchers, enqueue_ok \in BOOLEAN :
            SearcherFinish(q, enqueue_ok, TRUE)
    \/ Operator
    \/ ScrapeDelivery
    \/ \E item \in SearchItems : DropSearchTask(item)
    \/ \E u \in URLS : DropScrapeTask(u)

SearchSpec == Init /\ [][SearchNext]_vars

(***************************************************************************)
(* The gate on its own: the searcher and the operator, starting from any   *)
(* form the config document can have, also one written outside the         *)
(* pipeline without the processing_enabled field.                          *)
(***************************************************************************)
ConfigDocs ==
    {NoConfig,
     [exists |-> TRUE, has_flag |-> FALSE, processing_enabled |-> FALSE]}
    \cup {[exists |-> TRUE, has_flag |-> TRUE, processing_enabled |-> enabled] :
            enabled \in BOOLEAN}

GateInit ==
    /\ activities = <<>>
    /\ leaders = {}
    /\ places = {}
    /\ channel = <<>>
    /\ publish_queue = [k \in Keys |-> 0]
    /\ scrape_queue = [u \in URLS |-> 0]
    /\ pub = [p \in Publishers |-> IdlePub]
    /\ scr = [s \in Scrapers |-> IdleScr]
    /\ resp = NoResponse
    /\ config \in ConfigDocs
    /\ bookkeeping = NoBookkeeping
    /\ search_queue = [item \in SearchItems |-> 0]
    /\ srch = [q \in Searchers |-> IdleSrch]

GateNext ==
    \/ \E q \in Searchers : Searcher(q)
    \/ Operator

GateSpec == GateInit /\ [][GateNext]_vars

(***************************************************************************)
(* Searches for every activity type, over a store that holds any of the    *)
(* activities a scraper can have stored.                                   *)
(***************************************************************************)
StoredBy(keys) ==
    [k \in keys |->
        create_activity_data(parse_activity_detail(ActivityUrl(k, FALSE)))]

CategoryInit ==
    /\ \E keys \in SUBSET Keys :
        /\ activities = StoredBy(keys)
        /\ leaders = {document_id(LeaderPermalink(k)) : k \in keys}
        /\ places = {place_document_id(PlacePermalink(k)) : k \in keys}
    /\ channel = <<>>
    /\ publish_queue = [k \in Keys |-> 0]
    /\ scrape_queue = [u \in URLS |-> 0]
    /\ pub = [p \in Publishers |-> IdlePub]
    /\ scr = [s \in Scrapers |-> IdleScr]
    /\ resp = NoResponse
    /\ config = NoConfig
    /\ bookkeeping = NoBookkeeping
    /\ search_queue = [item \in SearchItems |-> 0]
    /\ srch = [q \in Searchers |-> IdleSrch]

CategoryNext == \E q \in Searchers : SearcherFor(q, ActivityTypes)

CategorySpec == CategoryInit /\ [][CategoryNext]_vars

(***************************************************************************)
(* The health record: the scheduled search of the first page, which writes *)
(* the searcher's fields, and calls of the scrape and publish updates.     *)
(***************************************************************************)
HealthUpdate ==
    \/ \E status \in HealthStatuses, success, ok \in BOOLEAN :
            UpdateScrapeStatus(status, success, ok)
    \/ \E status \in HealthStatuses, success, ok \in BOOLEAN :
            UpdatePublishStatus(status, success, ok)

HealthNext ==
    \/ \E q \in Searchers, fetch_ok, bk_ok \in BOOLEAN :
            SearcherStart(q, 0, DefaultActivityType, "http", TRUE, fetch_ok,
                          bk_ok)
    \/ \E q \in Searchers, exists_ok, enqueue_ok, bk_ok \in BOOLEAN :
            SearcherScan(q, exists_ok, enqueue_ok, bk_ok)
    \/ \E q \in Searchers, enqueue_ok, bk_ok \in BOOLEAN :
            SearcherFinish(q, enqueue_ok, bk_ok)
    \/ HealthUpdate

HealthSpec == Init /\ [][HealthNext]_vars

(***************************************************************************)
(* One scraper called on detail pages of every shape, with every failure   *)
(* of its collaborators.                                                   *)
(***************************************************************************)
ParseNext ==
    \/ \E url \in URLS, page \in Pages :
            ScraperFetch("s1", url, "http", TRUE, page)
    \/ \E url \in URLS : ScraperFetch("s1", url, "http", FALSE, FullPage)
    \/ \E leader_ok, place_ok \in BOOLEAN :
            ScraperUpsert("s1", leader_ok, place_ok)
    \/ \E ok, enqueue_ok \in BOOLEAN : ScraperCreate("s1", ok, enqueue_ok)

ParseSpec == Init /\ [][ParseNext]_vars

(***************************************************************************)
(* All four stages, invoked one at a time, with every failure of their     *)
(* collaborators: the scheduled search of the first page, the scraper fed  *)
(* from the scrape queue, the publisher and the catch-up job.              *)
(***************************************************************************)
SearchIdle == \A q \in Searchers : srch[q].pc = "idle"

StagesNext ==
    \/ AllIdle /\ SearchIdle /\ \E id \in Keys, source \in Sources :
                        PublisherStart("p1", id, source)
    \/ \E ok \in BOOLEAN : PublisherSend("p1", ok)
    \/ \E ok \in BOOLEAN : PublisherUpdate("p1", ok)
    \/ AllIdle /\ SearchIdle /\ \E url \in URLS, ok \in BOOLEAN :
                        ScraperStart("s1", url, "task", ok)
    \/ \E leader_ok, place_ok \in BOOLEAN :
            ScraperUpsert("s1", leader_ok, place_ok)
    \/ \E ok, enqueue_ok \in BOOLEAN : ScraperCreate("s1", ok, enqueue_ok)
    \/ AllIdle /\ SearchIdle /\ Catchup
    \/ \E q \in Searchers, fetch_ok \in BOOLEAN :
            /\ AllIdle
            /\ SearcherStart(q, 0, DefaultActivityType, "http", TRUE,
                             fetch_ok, TRUE)
    \/ \E q \in Searchers, exists_ok, enqueue_ok \in BOOLEAN :
            SearcherScan(q, exists_ok, enqueue_ok, TRUE)
    \/ \E q \in Searchers, enqueue_ok \in BOOLEAN :
            SearcherFinish(q, enqueue_ok, TRUE)

StagesSpec == Init /\ [][StagesNext]_vars

(***************************************************************************)
(* The operator at work: pause, drain and resume at any moment, while      *)
(* search requests arrive from the scheduler and the search queue and one  *)
(* scraper works off the scrape queue.  The searcher's and the scraper's   *)
(* collaborators succeed.                                                  *)
(***************************************************************************)
Drain == \E search_ok, scrape_ok \in BOOLEAN :
            drain_queues_handler(search_ok, scrape_ok)

DrainNext ==
    \/ \E q \in Searchers, item \in SearchItems, source \in Sources :
            /\ item[2] = DefaultActivityType
            /\ SearcherStart(q, item[1], item[2], source, TRUE, TRUE, TRUE)
    \/ \E q \in Searchers : SearcherScan(q, TRUE, TRUE, TRUE)
    \/ \E q \in Searchers : SearcherFinish(q, TRUE, TRUE)
    \/ Operator
    \/ Drain
    \/ ScrapeDelivery

DrainSpec == Init /\ [][DrainNext]_vars

(***************************************************************************)
(* The deployed functions fed from the three queues, over a store holding  *)
(* any of the activities a scraper can have stored.  Items enter the       *)
(* queues through the enqueue functions.                                   *)
(***************************************************************************)
\* The search items that are enqueued: a first page of the other category
\* and a continuation of the default one.
EntrySearchItems == {<<0, "Rock Climbing">>, <<page_size, DefaultActivityType>>}

EntryInit ==
    /\ \E keys \in {{}, {"a1"}} :
        /\ activities = StoredBy(keys)
        /\ leaders = {document_id(LeaderPermalink(k)) : k \in keys}
        /\ places = {place_document_id(PlacePermalink(k)) : k \in keys}
    /\ channel = <<>>
    /\ publish_queue = [k \in Keys |-> 0]
    /\ scrape_queue = [u \in URLS |-> 0]
    /\ pub = [p \in Publishers |-> IdlePub]
    /\ scr = [s \in Scrapers |-> IdleScr]
    /\ resp = NoResponse
    /\ config = NoConfig
    /\ bookkeeping = NoBookkeeping
    /\ search_queue = [item \in SearchItems |-> 0]
    /\ srch = [q \in Searchers |-> IdleSrch]

EntryNext ==
    \/ \E item \in EntrySearchItems : enqueue_search_task(item[1], item[2])
    \/ \E url \in ContendedURLS : enqueue_scrape_task(url)
    \/ \E id \in Keys : enqueue_publish_task(id)
    \/ \E q \in Searchers, item \in SearchItems, fetch_ok \in BOOLEAN,
          answered \in {0, page_size} :
            searcher(q, item, "task", fetch_ok, answered)
    \/ \E url \in URLS : scraper("s1", url, "task")
    \/ \E id \in Keys : publisher("p1", id, "task")
    \/ \E ok \in BOOLEAN : PublisherSend("p1", ok)
    \/ \E ok \in BOOLEAN : PublisherUpdate("p1", ok)

EntrySpec == EntryInit /\ [][EntryNext]_vars

(***************************************************************************)
(* One search chain: the scheduler triggers the search of the first page   *)
(* once, the search queue delivers the continuations, and the operator     *)
(* pauses and resumes while the chain runs.  Every failure of the          *)
(* searcher's collaborators can happen.  Fairness: a pending search item   *)
(* is delivered, and a running invocation takes its next step.             *)
(***************************************************************************)
ChainStarted == resp # NoResponse \/ ~SearchIdle

ChainTrigger ==
    /\ ~ChainStarted
    /\ \E q \in Searchers, read_ok, fetch_ok, bk_ok \in BOOLEAN :
        SearcherStart(q, 0, DefaultActivityType, "http", read_ok, fetch_ok,
                      bk_ok)

SearchDelivery ==
    \E q \in Searchers, item \in SearchItems,
       read_ok, fetch_ok, bk_ok \in BOOLEAN :
        SearcherStart(q, item[1], item[2], "task", read_ok, fetch_ok, bk_ok)

SearchScanStep ==
    \E q \in Searchers, exists_ok, enqueue_ok, bk_ok \in BOOLEAN :
        SearcherScan(q, exists_ok, enqueue_ok, bk_ok)

SearchFinishStep ==
    \E q \in Searchers, enqueue_ok, bk_ok \in BOOLEAN :
        SearcherFinish(q, enqueue_ok, bk_ok)

ChainNext ==
    \/ ChainTrigger
    \/ SearchDelivery
    \/ SearchScanStep
    \/ SearchFinishStep
    \/ ChainStarted /\ Operator

ChainSpec ==
    /\ GateInit
    /\ [][ChainNext]_vars
    /\ WF_vars(SearchDelivery)
    /\ WF_vars(SearchScanStep)
    /\ WF_vars(SearchFinishStep)

(***************************************************************************)
(* Publishing while the operator pauses and resumes: one scraper stores    *)
(* activities, the publisher is fed from the publish queue, and the        *)
(* catch-up job runs on its timer.  The scraper's collaborators succeed;   *)
(* the publisher's and the catch-up job's can fail.                        *)
(***************************************************************************)
PausedNext ==
    \/ Operator
    \/ \E url \in URLS : ScraperStart("s1", url, "http", TRUE)
    \/ ScraperUpsert("s1", TRUE, TRUE)
    \/ ScraperCreate("s1", TRUE, TRUE)
    \/ PublishDelivery
    \/ \E ok \in BOOLEAN : PublisherSend("p1", ok)
    \/ \E ok \in BOOLEAN : PublisherUpdate("p1", ok)
    \/ Catchup

PausedSpec == Init /\ [][PausedNext]_vars

(***************************************************************************)
(* Properties.                                                             *)
(***************************************************************************)
MessagesFor(id) == {n \in 1..Len(channel) : channel[n] = id}

Published(id) ==
    activity_exists(id) /\ IsSet(activities[id].discord_message_id)

\* The step in which publisher invocation p, given activity id, returns.
PublisherReturns(p, id) ==
    /\ \/ \E source \in Sources : PublisherStart(p, id, source)
       \/ pub[p].activity_id = id /\ \E ok \in BOOLEAN : PublisherSend(p, ok)
       \/ pub[p].activity_id = id /\ \E ok \in BOOLEAN : PublisherUpdate(p, ok)
    /\ pub'[p].pc = "idle"

\* The step in which scraper invocation s, given url, returns.
ScraperReturns(s, url) ==
    /\ \/ \E source \in Sources, ok \in BOOLEAN :
                ScraperStart(s, url, source, ok)
       \/ scr[s].url = url /\ \E leader_ok, place_ok \in BOOLEAN :
                ScraperUpsert(s, leader_ok, place_ok)
       \/ scr[s].url = url /\ \E ok, enqueue_ok \in BOOLEAN :
                ScraperCreate(s, ok, enqueue_ok)
    /\ scr'[s].pc = "idle"

\* C1: over any interleaving of publisher invocations for one activity,
\* concurrent ones included, at most one chat message is ever sent for it.
C1_AtMostOneMessage ==
    \A id \in Keys : Cardinality(MessagesFor(id)) <= 1

\* C2: of two publisher invocations in sequence for the same activity, the
\* first of which sent its message, the second returns skipped with the
\* message id the first recorded and sends nothing (one message in all).
C2_SecondPublishSkipped ==
    [][\A p \in Publishers, id \in Keys :
        (/\ resp.stage = "publish" /\ resp.activity_id = id /\ resp.sent
         /\ PublisherReturns(p, id))
        => (/\ resp'.status = "skipped"
            /\ IsSet(resp'.message_id)
            /\ resp'.message_id = resp.message_id
            /\ ~resp'.sent)]_vars

\* C3: a publisher invocation that finds the activity's message id present
\* returns skipped with the stored id, sends nothing and leaves the store
\* as it is.
C3_PublishedIsSkipped ==
    [][\A p \in Publishers, id \in Keys, source \in Sources :
        (/\ PublisherStart(p, id, source)
         /\ activity_exists(id)
         /\ IsSet(activities[id].discord_message_id))
        => (/\ resp' = Response("publish", <<id>>, "skipped", id,
                                activities[id].discord_message_id, FALSE, FALSE)
            /\ pub'[p].pc = "idle"
            /\ UNCHANGED <<store, channel>>)]_vars

C3_Witness ==
    /\ resp.stage = "publish"
    /\ resp.status = "skipped"
    /\ IsSet(resp.message_id)

\* C4: an activity's message id starts absent; once it holds a value it
\* never changes and never becomes absent; it is written only by the
\* publisher, with the id of a message sent for that activity.
C4_MessageIdSetOnce ==
    [][\A id \in Keys :
        /\ (~activity_exists(id) /\ id \in DOMAIN activities')
            => ~IsSet(activities'[id].discord_message_id)
        /\ (activity_exists(id) /\ IsSet(activities[id].discord_message_id))
            => (/\ id \in DOMAIN activities'
                /\ activities'[id].discord_message_id
                        = activities[id].discord_message_id)
        /\ (/\ activity_exists(id) /\ id \in DOMAIN activities'
            /\ activities'[id].discord_message_id
                    # activities[id].discord_message_id)
            => \E p \in Publishers :
                /\ PublisherUpdate(p, TRUE)
                /\ pub[p].activity_id = id
                /\ \E n \in MessagesFor(id) :
                        activities'[id].discord_message_id = MsgId(n)]_vars

Scraped(doc) == [doc EXCEPT !.discord_message_id = Missing]

C7_ReferencesExist ==
    /\ \A id \in DOMAIN activities :
        /\ activities[id].leader_ref \in leaders
        /\ activities[id].place_ref \in places
    /\ \A s \in Scrapers :
        scr[s].pc = "create"
        => /\ document_id(ScraperActivity(s).leader) \in leaders
           /\ place_document_id(ScraperActivity(s).place) \in places

C7_Witness == DOMAIN activities # {}

C10_GateDisabledSearchSkips ==
    [][\A q \in Searchers, item \in SearchItems, source \in Sources,
          fetch_ok, bk_ok \in BOOLEAN :
        (/\ SearcherStart(q, item[1], item[2], source, TRUE, fetch_ok, bk_ok)
         /\ config.exists /\ config.has_flag /\ ~config.processing_enabled)
        => (/\ resp'.stage = "search"
            /\ resp'.arg = item
            /\ resp'.status = "skipped"
            /\ ~resp'.fetched
            /\ srch'[q].pc = "idle"
            /\ search_queue' = Delivered(search_queue, item, source)
            /\ UNCHANGED <<store, bookkeeping, scrape_queue, publish_queue,
                           channel, config>>)]_vars

\* A search request for a page that lists an activity not yet stored was
\* answered skipped while the flag is stored as false.
C10_Witness ==
    /\ resp.stage = "search"
    /\ resp.status = "skipped"
    /\ resp.arg[1] = 0
    /\ ~activity_exists("a2")
    /\ config.has_flag /\ ~config.processing_enabled
    /\ bookkeeping.search_status = "Green"

\* The stored processing flag is explicitly false.
GateDisabled == config.exists /\ config.has_flag /\ ~config.processing_enabled

\* C11: a scraper invocation that starts while the stored processing flag
\* is false returns skipped and does nothing else: no page fetch, no leader,
\* place or activity write, no publish item.
C11_GateDisabledScrapeSkips ==
    [][\A s \in Scrapers, url \in URLS, source \in Sources, ok \in BOOLEAN :
        (ScraperStart(s, url, source, ok) /\ GateDisabled)
        => (/\ resp'.stage = "scrape"
            /\ resp'.arg = url
            /\ resp'.status = "skipped"
            /\ ~resp'.fetched
            /\ scr'[s].pc = "idle"
            /\ UNCHANGED <<store, publish_queue>>)]_vars

\* C12: the gate reads as disabled exactly when the read succeeds and the
\* stored flag is explicitly false; an absent document, a document without
\* the flag and a failed read all read as enabled, and a searcher whose gate
\* read fails goes on to its fetch instead of returning an error for it.
C12_GateFailsOpen ==
    [][/\ \A read_ok \in BOOLEAN :
            is_processing_enabled(read_ok) = ~(read_ok /\ GateDisabled)
       /\ \A q \in Searchers, item \in SearchItems, source \in Sources,
             read_ok, fetch_ok, bk_ok \in BOOLEAN :
            SearcherStart(q, item[1], item[2], source, read_ok, fetch_ok, bk_ok)
            => /\ (resp'.stage = "search" /\ resp'.status = "skipped"
                     /\ srch'[q].pc = "idle")
                    <=> (read_ok /\ GateDisabled)
               /\ (~read_ok /\ fetch_ok) => srch'[q].pc = "scan"
               /\ (~read_ok /\ ~fetch_ok) => resp'.fetched]_vars

\* A searcher is past the gate although the config document exists: it has
\* no processing_enabled field.
C12_Witness ==
    /\ config.exists
    /\ ~config.has_flag
    /\ \E q \in Searchers : srch[q].pc = "scan"

\* C13: a successful pause leaves the flag stored as false and a successful
\* resume leaves it stored as true, whatever the config document was; a
\* failed flag write returns an error and leaves the document as it was;
\* nothing else changes the document.
C13_PauseResumeOverwrite ==
    [][/\ \A ok \in BOOLEAN :
            pause_processing_handler(ok)
            => /\ resp'.stage = "pause"
               /\ resp'.status = (IF ok THEN "success" ELSE "error")
               /\ config' = (IF ok THEN set_processing_enabled(FALSE)
                                   ELSE config)
               /\ ok => ~is_processing_enabled(TRUE)'
       /\ \A ok \in BOOLEAN :
            resume_processing_handler(ok)
            => /\ resp'.stage = "resume"
               /\ resp'.status = (IF ok THEN "success" ELSE "error")
               /\ config' = (IF ok THEN set_processing_enabled(TRUE)
                                   ELSE config)
               /\ ok => is_processing_enabled(TRUE)'
       /\ config' # config
            => \/ pause_processing_handler(TRUE)
               \/ resume_processing_handler(TRUE)]_vars

\* A pause has just failed and the flag is still stored as true.
C13_Witness ==
    /\ resp.stage = "pause"
    /\ resp.status = "error"
    /\ config.exists /\ config.has_flag /\ config.processing_enabled

\* The listed URL a searcher invocation in its loop is at.
ScanUrl(q) == SearchPage(srch[q].start_index).activity_urls[srch[q].i]

\* C14: a round of the searcher's loop enqueues no scrape item for a URL
\* whose activity is stored and makes exactly one enqueue attempt for a URL
\* whose activity is not stored, then moves to the next URL; a scrape item
\* is only ever added for a URL whose activity is not stored; the
\* invocation returns success only after a round for every listed URL.
C14_ScrapeItemsForNewUrls ==
    [][/\ \A q \in Searchers, enqueue_ok, bk_ok \in BOOLEAN :
            SearcherScan(q, TRUE, enqueue_ok, bk_ok)
            => /\ scrape_queue' =
                    IF ~activity_exists(document_id(ScanUrl(q))) /\ enqueue_ok
                    THEN [scrape_queue EXCEPT ![ScanUrl(q)] = @ + 1]
                    ELSE scrape_queue
               /\ srch'[q].new_activities_count - srch[q].new_activities_count
                    = scrape_queue'[ScanUrl(q)] - scrape_queue[ScanUrl(q)]
               /\ srch'[q].pc = "scan"
               /\ srch'[q].i = srch[q].i + 1
       /\ \A u \in URLS :
            scrape_queue'[u] > scrape_queue[u]
            => /\ ~activity_exists(document_id(u))
               /\ scrape_queue'[u] = scrape_queue[u] + 1
               /\ \E q \in Searchers : srch[q].pc = "scan" /\ ScanUrl(q) = u
       /\ \A q \in Searchers, enqueue_ok, bk_ok \in BOOLEAN :
            SearcherFinish(q, enqueue_ok, bk_ok)
            => /\ srch[q].i
                    = Len(SearchPage(srch[q].start_index).activity_urls) + 1
               /\ resp'.activities_found
                    = Len(SearchPage(srch[q].start_index).activity_urls)
               /\ UNCHANGED scrape_queue]_vars

\* A searcher invocation has been through a page of two URLs, both new, and
\* has enqueued two scrape items.
C14_Witness ==
    \E q \in Searchers :
        /\ srch[q].pc = "scan"
        /\ srch[q].i = 3
        /\ srch[q].new_activities_count = 2
        /\ DOMAIN activities = {}

\* C15: a failed scrape enqueue leaves the searcher in its loop at the next
\* URL, with nothing reported; the invocation leaves the loop only by a
\* failed existence read or, past the last URL, through the continuation
\* step, which returns success whether its own enqueue succeeds or not.
C15_EnqueueFailureTolerated ==
    [][/\ \A q \in Searchers, bk_ok \in BOOLEAN :
            (/\ SearcherScan(q, TRUE, FALSE, bk_ok)
             /\ ~activity_exists(document_id(ScanUrl(q))))
            => /\ srch' = [srch EXCEPT ![q].i = @ + 1]
               /\ UNCHANGED <<resp, bookkeeping, scrape_queue, search_queue>>
       /\ \A q \in Searchers :
            (srch[q].pc = "scan" /\ srch'[q].pc # "scan")
            => \/ \E bk_ok \in BOOLEAN : SearcherScan(q, FALSE, TRUE, bk_ok)
               \/ /\ \E enqueue_ok, bk_ok \in BOOLEAN :
                        SearcherFinish(q, enqueue_ok, bk_ok)
                  /\ resp'.stage = "search"
                  /\ resp'.status = "success"
                  /\ resp'.arg = <<srch[q].start_index, srch[q].activity_type>>]_vars

\* A search of the first page has returned success and left its
\* continuation, with the second URL's scrape item enqueued and the first
\* URL's enqueue failed: no item for it is pending and none was delivered.
C15_Witness ==
    /\ resp.stage = "search"
    /\ resp.status = "success"
    /\ resp.arg[1] = 0
    /\ DOMAIN activities = {}
    /\ \A s \in Scrapers : scr[s].pc = "idle"
    /\ scrape_queue[ActivityUrl("a1", FALSE)] = 0
    /\ scrape_queue[ActivityUrl("a2", FALSE)] = 1
    /\ \E item \in SearchItems : item[1] = page_size /\ search_queue[item] = 1

\* The search queue with one more item for the page after start_index, for
\* the same activity type.
WithContinuation(start_index, activity_type) ==
    [search_queue EXCEPT ![<<start_index + 20, activity_type>>] = @ + 1]

\* C16 as stated: a searcher invocation that fetched its page returns with
\* exactly one continuation item enqueued, for start_index + 20 and the
\* same activity type, if the page links to a next page, and with none
\* enqueued if it does not.
C16_OneContinuation_AsStated ==
    [][\A q \in Searchers :
        (srch[q].pc = "scan" /\ srch'[q].pc = "idle")
        => search_queue' =
            IF SearchPage(srch[q].start_index).next_page_url
            THEN WithContinuation(srch[q].start_index, srch[q].activity_type)
            ELSE search_queue]_vars

\* C16 amended: an invocation that returns success has made one attempt to
\* enqueue the continuation if and only if the page links to a next page,
\* and when the attempt succeeds the item is for start_index + 20 and the
\* same activity type, however many URLs of the page were new; no other
\* step adds a search item.
C16_OneContinuation ==
    [][/\ \A q \in Searchers, enqueue_ok, bk_ok \in BOOLEAN :
            SearcherFinish(q, enqueue_ok, bk_ok)
            => /\ search_queue' =
                    IF SearchPage(srch[q].start_index).next_page_url
                       /\ enqueue_ok
                    THEN WithContinuation(srch[q].start_index,
                                          srch[q].activity_type)
                    ELSE search_queue
               /\ resp'.status = "success"
               /\ resp'.has_next_page
                    = SearchPage(srch[q].start_index).next_page_url
       /\ \A item \in SearchItems :
            search_queue'[item] > search_queue[item]
            => \E q \in Searchers :
                /\ srch[q].pc = "scan" /\ srch'[q].pc = "idle"
                /\ resp'.status = "success"
                /\ SearchPage(srch[q].start_index).next_page_url
                /\ search_queue' = WithContinuation(srch[q].start_index,
                                                    srch[q].activity_type)]_vars

\* A search of the first page for the second activity type, on which no URL
\* was new, has returned success and its continuation is pending.
C16_Witness ==
    /\ resp.stage = "search"
    /\ resp.status = "success"
    /\ resp.arg = <<0, "Rock Climbing">>
    /\ resp.has_next_page
    /\ Keys \subseteq DOMAIN activities
    /\ search_queue[<<20, "Rock Climbing">>] = 1
    /\ search_queue[<<20, DefaultActivityType>>] = 0

\* The invocation that takes this step ends in it with an error result.
ReturnsError(stage) == resp'.stage = stage /\ resp'.status = "error"

\* A fetch, a parse, a store read or write, or a chat send fails in this
\* step, and the stage's invocation ends with an error result.
FailureIsReturned ==
    /\ \A q \in Searchers, item \in SearchItems, source \in Sources,
          read_ok, bk_ok \in BOOLEAN :
        (/\ SearcherStart(q, item[1], item[2], source, read_ok, FALSE, bk_ok)
         /\ is_processing_enabled(read_ok))
        => ReturnsError("search") /\ srch'[q].pc = "idle"
    /\ \A q \in Searchers, bk_ok \in BOOLEAN :
        SearcherScan(q, FALSE, TRUE, bk_ok)
        => ReturnsError("search") /\ srch'[q].pc = "idle"
    /\ \A s \in Scrapers, url \in URLS, source \in Sources :
        (ScraperStart(s, url, source, FALSE)
         /\ ~activity_exists(document_id(url)))
        => ReturnsError("scrape") /\ scr'[s].pc = "idle"
    /\ \A s \in Scrapers, leader_ok, place_ok \in BOOLEAN :
        (ScraperUpsert(s, leader_ok, place_ok) /\ ~(leader_ok /\ place_ok))
        => ReturnsError("scrape") /\ scr'[s].pc = "idle"
    /\ \A s \in Scrapers, enqueue_ok \in BOOLEAN :
        (ScraperCreate(s, FALSE, enqueue_ok)
         /\ ~activity_exists(document_id(scr[s].url)))
        => ReturnsError("scrape") /\ scr'[s].pc = "idle"
    /\ \A p \in Publishers, id \in Keys, source \in Sources :
        (PublisherStart(p, id, source) /\ ~activity_exists(id))
        => ReturnsError("publish") /\ pub'[p].pc = "idle"
    /\ \A p \in Publishers :
        (PublisherSend(p, FALSE) \/ PublisherUpdate(p, FALSE))
        => ReturnsError("publish") /\ pub'[p].pc = "idle"
    /\ publishing_catchup_handler(FALSE, {}) => ReturnsError("catchup")

\* An enqueue fails in this step, and the stage's invocation ends with an
\* error result.
EnqueueFailureIsReturned ==
    /\ \A s \in Scrapers :
        (ScraperCreate(s, TRUE, FALSE)
         /\ ~activity_exists(document_id(scr[s].url)))
        => ReturnsError("scrape")
    /\ \A q \in Searchers, bk_ok \in BOOLEAN :
        (SearcherFinish(q, FALSE, bk_ok)
         /\ SearchPage(srch[q].start_index).next_page_url)
        => ReturnsError("search")
    /\ \A enqueued \in SUBSET Keys :
        (publishing_catchup_handler(TRUE, enqueued)
         /\ enqueued # get_unpublished_activity_ids)
        => ReturnsError("catchup")

\* The results a handler returns to the platform.
Statuses == {"success", "skipped", "error"}

RequiredFields == {"title", "date", "leader", "place"}

MissingFields(page) == RequiredFields \ page

\* The error message has the word.
Names(error, word) == \E i \in DOMAIN error : error[i] = word

\* C18: when the extraction from a fetched detail page fails because a
\* required field (title, date, leader, place) is missing, the scraper
\* returns status error with a message naming a missing field, and writes no
\* leader, no place and no activity and enqueues no publish item.
C18_MissingFieldWritesNothing ==
    [][\A s \in Scrapers, url \in URLS, source \in Sources, page \in Pages :
        (/\ MissingFields(page) # {}
         /\ ~activity_exists(document_id(url))
         /\ ScraperFetch(s, url, source, TRUE, page))
        => /\ resp'.stage = "scrape"
           /\ resp'.arg = url
           /\ resp'.status = "error"
           /\ \E field \in MissingFields(page) : Names(resp'.error, field)
           /\ scr'[s].pc = "idle"
           /\ UNCHANGED <<store, publish_queue>>]_vars

\* A scrape of a page without its leader section has returned its error
\* while another activity is stored.
C18_Witness ==
    /\ resp.stage = "scrape"
    /\ resp.status = "error"
    /\ Names(resp.error, "leader")
    /\ ~activity_exists(resp.activity_id)
    /\ activities # <<>>

\* C19: a scraper invocation that returns status error leaves the leader,
\* place and activity collections as they were before the invocation.  One
\* invocation runs at a time and only its upsert and create steps write, so
\* the store before a failing fetch or upsert step is the store before the
\* invocation.
C19_ErrorLeavesStoreUntouched ==
    [][/\ \A s \in Scrapers, url \in URLS, source \in Sources :
            (/\ ~activity_exists(document_id(url))
             /\ ScraperFetch(s, url, source, FALSE, FullPage))
            => resp'.status = "error" /\ UNCHANGED store
       /\ \A s \in Scrapers, leader_ok, place_ok \in BOOLEAN :
            (ScraperUpsert(s, leader_ok, place_ok) /\ ~(leader_ok /\ place_ok))
            => resp'.status = "error" /\ UNCHANGED store]_vars

\* The step creates the activity document of the key.
Creates(id) == ~activity_exists(id) /\ activity_exists(id)'

C22_MissingActivityIsError ==
    [][\A p \in Publishers, id \in Keys, source \in Sources :
        (~activity_exists(id) /\ PublisherStart(p, id, source))
        => /\ resp'.stage = "publish"
           /\ resp'.activity_id = id
           /\ resp'.status = "error"
           /\ ~resp'.sent
           /\ pub'[p].pc = "idle"
           /\ UNCHANGED <<store, channel>>]_vars

\* A publisher invocation has returned its error for a key that is not
\* stored, while another activity is stored.
C22_Witness ==
    /\ resp.stage = "publish"
    /\ resp.status = "error"
    /\ ~activity_exists(resp.activity_id)
    /\ activities # <<>>
    /\ \A i \in DOMAIN channel : channel[i] # resp.activity_id

\* The activity is stored with its leader and place, so get_activity
\* returns it.
Loadable(id) ==
    /\ activity_exists(id)
    /\ activities[id].leader_ref \in leaders
    /\ activities[id].place_ref \in places

\* C23: a failed chat send ends the publisher invocation with an error
\* result after that one attempt, with no message in the channel and the
\* store as it was, so an absent message id stays absent; and a later
\* invocation that finds the message id absent goes on to send.
C23_SendFailureNoRetry ==
    [][/\ \A p \in Publishers, id \in Keys :
            (pub[p].activity_id = id /\ PublisherSend(p, FALSE))
            => /\ resp'.stage = "publish"
               /\ resp'.activity_id = id
               /\ resp'.status = "error"
               /\ ~resp'.sent
               /\ pub'[p].pc = "idle"
               /\ UNCHANGED <<store, channel>>
               /\ ~Published(id) => ~Published(id)'
       /\ \A p \in Publishers, id \in Keys, source \in Sources :
            (Loadable(id) /\ ~Published(id) /\ PublisherStart(p, id, source))
            => pub'[p].pc = "send" /\ pub'[p].activity_id = id]_vars

\* A send has failed for a stored, unpublished activity: the invocation
\* returned error, no message for the activity is in the channel and no
\* publish item for it is pending.
C23_Witness ==
    /\ resp.stage = "publish"
    /\ resp.status = "error"
    /\ ~resp.sent
    /\ Loadable(resp.activity_id)
    /\ ~Published(resp.activity_id)
    /\ publish_queue[resp.activity_id] = 0
    /\ \A i \in DOMAIN channel : channel[i] # resp.activity_id
    /\ \A p \in Publishers : pub[p].pc = "idle"

\* C24: after a successful send the publisher stores exactly the id the
\* chat service returned in the activity's message id, changes no other
\* field of the activity and no leader or place, and returns success with
\* that id; and the message id is written only after the send, by the
\* invocation that sent.
C24_SentIdIsStored ==
    [][/\ \A p \in Publishers, id \in Keys, ok \in BOOLEAN :
            (pub[p].activity_id = id /\ PublisherUpdate(p, ok))
            => /\ activities' = update_discord_message_id(id,
                                                          pub[p].message_id)
               /\ UNCHANGED <<leaders, places>>
               /\ resp'.status = "success"
               /\ resp'.message_id = pub[p].message_id
       /\ \A id \in Keys :
            (/\ activity_exists(id)
             /\ activities'[id].discord_message_id
                    # activities[id].discord_message_id)
            => \E p \in Publishers, n \in DOMAIN channel :
                /\ pub[p].pc = "update"
                /\ pub[p].activity_id = id
                /\ pub[p].message_id = MsgId(n)
                /\ channel[n] = id
                /\ activities'[id].discord_message_id = MsgId(n)]_vars

\* C25: a scrape item without activity_url and a publish item without
\* activity_id each give an error result that the handler returns, and the
\* invocation reads and writes no store document, enqueues nothing, sends
\* nothing and starts no fetch: it ends in the step that refuses the item.
C25_MalformedItemIsError ==
    [][/\ \A s \in Scrapers, payload \in ScrapeItemsWithoutUrl :
            ScraperMalformed(s, payload)
            => /\ resp'.stage = "scrape"
               /\ resp'.status = "error"
               /\ ~resp'.fetched
               /\ scr'[s].pc = "idle"
               /\ UNCHANGED <<store, channel, publish_queue, scrape_queue,
                              search_queue>>
       /\ \A p \in Publishers, payload \in PublishItemsWithoutId :
            PublisherMalformed(p, payload)
            => /\ resp'.stage = "publish"
               /\ resp'.status = "error"
               /\ ~resp'.sent
               /\ pub'[p].pc = "idle"
               /\ UNCHANGED <<store, channel, publish_queue, scrape_queue,
                              search_queue>>]_vars

\* A scrape item without its url has been refused while an activity is
\* stored and unpublished.
C25_Witness ==
    /\ resp.stage = "scrape"
    /\ resp.status = "error"
    /\ Names(resp.error, "rstrip")
    /\ get_unpublished_activity_ids # {}

\* C26: in a catch-up run whose query succeeds, a failed enqueue does not
\* end the scan: every returned key whose enqueue succeeds gets exactly one
\* publish item and no other key gets any, the run returns success,
\* activities_found is the number of keys the query returned and
\* tasks_enqueued the number of enqueues that succeeded.
C26_CatchupToleratesEnqueueFailure ==
    [][\A enqueued \in SUBSET Keys :
        publishing_catchup_handler(TRUE, enqueued)
        => /\ resp'.stage = "catchup"
           /\ resp'.status = "success"
           /\ resp'.activities_found =
                  Cardinality(get_unpublished_activity_ids)
           /\ resp'.tasks_enqueued = Cardinality(enqueued)
           /\ resp'.tasks_enqueued <= resp'.activities_found
           /\ \A k \in Keys :
                publish_queue'[k] =
                    publish_queue[k] + (IF k \in enqueued THEN 1 ELSE 0)]_vars

\* A catch-up run has found two unpublished activities and enqueued one:
\* the enqueue for the other failed.
C26_Witness ==
    /\ resp.stage = "catchup"
    /\ resp.status = "success"
    /\ resp.activities_found = 2
    /\ resp.tasks_enqueued = 1

\* The step in which a searcher invocation ends in its except branch: the
\* fetch of the listing or an existence read has failed.
SearcherFails(bk_ok) ==
    \E q \in Searchers :
        \/ \E item \in SearchItems, source \in Sources, read_ok \in BOOLEAN :
            /\ is_processing_enabled(read_ok)
            /\ SearcherStart(q, item[1], item[2], source, read_ok, FALSE, bk_ok)
        \/ SearcherScan(q, FALSE, TRUE, bk_ok)

\* The step in which a searcher invocation completes successfully.
SearcherSucceeds(bk_ok) ==
    \E q \in Searchers, enqueue_ok \in BOOLEAN :
        SearcherFinish(q, enqueue_ok, bk_ok)

\* The bookkeeping record gets status Green or a last-success timestamp in
\* this step.
GreenRecorded ==
    \/ bookkeeping'.search_status = "Green"
            /\ bookkeeping.search_status # "Green"
    \/ bookkeeping'.last_search_success # bookkeeping.last_search_success

\* C27 as stated: the searcher records Green with a last-success timestamp
\* exactly when its invocation completes successfully; on an error it
\* records Red, leaves the timestamp as it was and returns an error result.
C27_SearchHealth_AsStated ==
    [][/\ \A bk_ok \in BOOLEAN :
            SearcherSucceeds(bk_ok)
            => /\ resp'.status = "success"
               /\ bookkeeping'.search_status = "Green"
               /\ bookkeeping'.last_search_success = "SERVER_TIMESTAMP"
       /\ \A bk_ok \in BOOLEAN :
            SearcherFails(bk_ok)
            => /\ resp'.status = "error"
               /\ bookkeeping'.search_status = "Red"
               /\ bookkeeping'.last_search_success
                      = bookkeeping.last_search_success
       /\ GreenRecorded
            => resp'.stage = "search" /\ resp'.status = "success"]_vars

\* C27 amended: when the bookkeeping write succeeds the record is as
\* stated; when it fails the record stays as it was and the invocation
\* returns the same result.  Green and the timestamp are never recorded by
\* a step other than a successful completion.
C27_SearchHealth ==
    [][/\ SearcherSucceeds(TRUE)
            => /\ resp'.status = "success"
               /\ bookkeeping'.search_status = "Green"
               /\ bookkeeping'.last_search_success = "SERVER_TIMESTAMP"
       /\ SearcherFails(TRUE)
            => /\ resp'.status = "error"
               /\ bookkeeping'.search_status = "Red"
               /\ bookkeeping'.last_search_success
                      = bookkeeping.last_search_success
       /\ SearcherSucceeds(FALSE)
            => resp'.status = "success" /\ UNCHANGED bookkeeping
       /\ SearcherFails(FALSE)
            => resp'.status = "error" /\ UNCHANGED bookkeeping
       /\ GreenRecorded
            => resp'.stage = "search" /\ resp'.status = "success"]_vars

\* A search has failed after an earlier one succeeded: the record is Red
\* and still carries the last-success timestamp.
C27_Witness ==
    /\ resp.stage = "search"
    /\ resp.status = "error"
    /\ bookkeeping.search_status = "Red"
    /\ bookkeeping.last_search_success = "SERVER_TIMESTAMP"

\* C28: every scraper invocation updates the scrape health record: Green
\* with a last-success timestamp when it returns success or skipped, Red
\* when it returns error.
C28_ScrapeHealth ==
    [][\A s \in Scrapers, url \in URLS :
        ScraperReturns(s, url)
        => IF resp'.status \in {"success", "skipped"}
           THEN /\ bookkeeping'.scrape_status = "Green"
                /\ bookkeeping'.last_scrape_success = "SERVER_TIMESTAMP"
           ELSE bookkeeping'.scrape_status = "Red"]_vars

\* Everything a searcher step can change but the bookkeeping record: the
\* returned result, the queues and the invocation's own position.
SearchOutcome == <<resp, scrape_queue, search_queue, srch>>

\* C29: a searcher step whose bookkeeping write fails returns the same
\* result and leaves the same queues as the same step, from the same state
\* and with the same other inputs, with the bookkeeping write succeeding.
C29_BookkeepingFailureSameOutcome ==
    [][\A q \in Searchers, outcome \in {SearchOutcome'} :
        /\ \A item \in SearchItems, source \in Sources,
              read_ok \in BOOLEAN :
            SearcherStart(q, item[1], item[2], source, read_ok, FALSE, FALSE)
            => ENABLED (/\ SearcherStart(q, item[1], item[2], source, read_ok,
                                         FALSE, TRUE)
                        /\ SearchOutcome' = outcome)
        /\ SearcherScan(q, FALSE, TRUE, FALSE)
            => ENABLED (/\ SearcherScan(q, FALSE, TRUE, TRUE)
                        /\ SearchOutcome' = outcome)
        /\ \A enqueue_ok \in BOOLEAN :
            SearcherFinish(q, enqueue_ok, FALSE)
            => ENABLED (/\ SearcherFinish(q, enqueue_ok, TRUE)
                        /\ SearchOutcome' = outcome)]_vars

\* A search has returned success while the health record still says Red:
\* its bookkeeping write failed.
C29_Witness ==
    /\ resp.stage = "search"
    /\ resp.status = "success"
    /\ bookkeeping.search_status = "Red"

\* The two fields of the health record that belong to a stage.
StageFields(stage) ==
    CASE stage = "search" -> {"search_status", "last_search_success"}
      [] stage = "scrape" -> {"scrape_status", "last_scrape_success"}
      [] stage = "publish" -> {"publish_status", "last_publish_success"}

\* The step changes no field of the health record but the stage's own.
OnlyStage(stage) ==
    \A f \in DOMAIN bookkeeping :
        f \notin StageFields(stage) => bookkeeping'[f] = bookkeeping[f]

\* What the searcher can do next and with which result.
SearcherCanReturn(q, status) ==
    ENABLED (/\ \/ \E fetch_ok, bk_ok \in BOOLEAN :
                    SearcherStart(q, 0, DefaultActivityType, "http", TRUE,
                                  fetch_ok, bk_ok)
                \/ \E exists_ok, enqueue_ok, bk_ok \in BOOLEAN :
                    SearcherScan(q, exists_ok, enqueue_ok, bk_ok)
                \/ \E enqueue_ok, bk_ok \in BOOLEAN :
                    SearcherFinish(q, enqueue_ok, bk_ok)
             /\ resp'.status = status)

\* C30: a health update by one stage changes only that stage's status and,
\* when it reports a success, that stage's last-success timestamp, and
\* leaves the fields of the other stages as they are; and what a stage can
\* do and return does not depend on the health record.
C30_HealthUpdateFrame ==
    [][/\ \A status \in HealthStatuses, success, ok \in BOOLEAN :
            UpdateScrapeStatus(status, success, ok)
            => /\ OnlyStage("scrape")
               /\ ok => bookkeeping'.scrape_status = status
               /\ ~success => bookkeeping'.last_scrape_success
                                  = bookkeeping.last_scrape_success
       /\ \A status \in HealthStatuses, success, ok \in BOOLEAN :
            UpdatePublishStatus(status, success, ok)
            => /\ OnlyStage("publish")
               /\ ok => bookkeeping'.publish_status = status
               /\ ~success => bookkeeping'.last_publish_success
                                  = bookkeeping.last_publish_success
       /\ \A bk_ok \in BOOLEAN :
            (SearcherSucceeds(bk_ok) \/ SearcherFails(bk_ok))
            => /\ OnlyStage("search")
               /\ resp'.status # "success"
                    => bookkeeping'.last_search_success
                          = bookkeeping.last_search_success
       /\ HealthUpdate
            => \A q \in Searchers, status \in Statuses \cup {"-"} :
                SearcherCanReturn(q, status) <=> SearcherCanReturn(q, status)'
      ]_vars

\* The searcher has recorded a success in a health record that holds the
\* scraper's and the publisher's statuses.
C30_Witness ==
    /\ bookkeeping.search_status = "Green"
    /\ bookkeeping.last_search_success = "SERVER_TIMESTAMP"
    /\ bookkeeping.scrape_status = "Red"
    /\ bookkeeping.last_scrape_success = "SERVER_TIMESTAMP"
    /\ bookkeeping.publish_status = "Green"
    /\ bookkeeping.last_publish_success = "-"

\* C31: creating an activity whose key is stored raises 'already exists'
\* and leaves the stored activity as it is; a full update or a message id
\* update of a key that is not stored raises 'does not exist' and creates
\* nothing.
C31_CreateAndUpdateGuards ==
    [][/\ \A activity \in ActivityObjects :
            (/\ activity_exists(document_id(activity.activity_permalink))
             /\ create_activity(activity))
            => /\ resp'.status = "raised"
               /\ Names(resp'.error, "already") /\ Names(resp'.error, "exists")
               /\ UNCHANGED store
       /\ \A activity \in ActivityObjects :
            (/\ ~activity_exists(document_id(activity.activity_permalink))
             /\ update_activity(activity))
            => /\ resp'.status = "raised"
               /\ Names(resp'.error, "not") /\ Names(resp'.error, "exist")
               /\ UNCHANGED store
       /\ \A id \in Keys, n \in 1..MaxMessages :
            (~activity_exists(id) /\ UpdateDiscordMessageId(id, MsgId(n)))
            => /\ resp'.status = "raised"
               /\ Names(resp'.error, "not") /\ Names(resp'.error, "exist")
               /\ UNCHANGED store]_vars

\* A full update of a key that is not stored has been refused while the
\* other key is stored.
C31_Witness ==
    /\ resp.stage = "update_activity"
    /\ resp.status = "raised"
    /\ ~activity_exists(resp.activity_id)
    /\ activities # <<>>

\* C32: a drain that returns success leaves no pending item in the search
\* queue and none in the scrape queue, and changes neither the publish
\* queue nor the entity store nor the gate flag; a drain whose purge fails
\* returns an error status.
C32_DrainFrame ==
    [][\A search_ok, scrape_ok \in BOOLEAN :
         drain_queues_handler(search_ok, scrape_ok)
         => /\ resp'.stage = "drain_queues"
            /\ (~search_ok \/ ~scrape_ok) => resp'.status = "error"
            /\ resp'.status \in {"success", "error"}
            /\ resp'.status = "success"
               => /\ \A item \in SearchItems : search_queue'[item] = 0
                  /\ \A u \in URLS : scrape_queue'[u] = 0
                  /\ UNCHANGED <<publish_queue, store, config>>]_vars

C32_Witness ==
    /\ resp.stage = "drain_queues"
    /\ resp.status = "success"
    /\ \E k \in Keys : publish_queue[k] > 0
    /\ activities # <<>>
    /\ GateDisabled

\* The three parts of C33: a search item (n, c) makes the listing request
\* for offset n and category c, a scrape item the scrape of its url, a
\* publish item the publication of its key.
C33_SearchItemFields ==
    \A q \in Searchers, item \in SearchItems, fetch_ok \in BOOLEAN,
       answered \in {0, page_size} :
        (searcher(q, item, "task", fetch_ok, answered) /\ resp'.fetched)
        => resp'.arg = <<PyInt(item[1]), PyStr(item[2])>>

C33_ScrapeItemFields ==
    \A url \in URLS :
        scraper("s1", url, "task")
        => resp'.arg = PyStr(url) /\ resp'.status # "error"

C33_PublishItemFields ==
    \A id \in Keys :
        publisher("p1", id, "task")
        => \/ pub'["p1"].pc = "send" /\ pub'["p1"].activity_id = id
           \/ resp'.stage = "publish" /\ resp'.activity_id = id

\* C33: a work item delivered to its function is processed with the field
\* values it was enqueued with, for search, scrape and publish items.
C33_ItemsKeepTheirFields ==
    [][/\ C33_SearchItemFields
       /\ C33_ScrapeItemFields
       /\ C33_PublishItemFields]_vars

\* The part of C33 about publish items, on its own.
C33_PublishItemsKeepTheirFields == [][C33_PublishItemFields]_vars

\* C34: whenever no publisher invocation for an activity is in progress,
\* the activity has its message id present exactly when a chat message has
\* been sent for it; so no invocation returns leaving a sent message
\* unrecorded.
C34_RecordedIffSent ==
    \A id \in Keys :
        (\A p \in Publishers : pub[p].pc = "idle" \/ pub[p].activity_id # id)
        => (Published(id) <=> MessagesFor(id) # {})

\* C35: the full-record update never makes a present message id absent:
\* updating a published activity with a record whose message id is unset
\* leaves the stored message id in place, and the activity published.
C35_UpdateKeepsMessageId ==
    [][\A activity \in ActivityObjects :
        (/\ Published(document_id(activity.activity_permalink))
         /\ ~IsSet(activity.discord_message_id)
         /\ update_activity(activity))
        => \E id \in Keys :
            /\ id = document_id(activity.activity_permalink)
            /\ id \in DOMAIN activities'
            /\ activities'[id].discord_message_id
                    = activities[id].discord_message_id]_vars

\* C36: for every detail URL of an activity, with or without a trailing
\* slash, the searcher's existence check, the scraper's pre-check and the
\* scraper's create all use one key, the activity's: the searcher enqueues
\* the URL exactly when no document is stored under that key, the scraper
\* skips exactly when one is, and the activity scraped from the URL is
\* stored under that key.
C36_OneKeyPerActivity ==
    [][\A k \in Keys, slash \in BOOLEAN :
        ActivityUrl(k, slash) \in URLS =>
        /\ \A q \in Searchers :
            (/\ srch[q].pc = "scan"
             /\ srch[q].i <= Len(SearchPage(srch[q].start_index).activity_urls)
             /\ SearchPage(srch[q].start_index).activity_urls[srch[q].i]
                    = ActivityUrl(k, slash)
             /\ SearcherScan(q, TRUE, TRUE, TRUE))
            => (scrape_queue' # scrape_queue <=> k \notin DOMAIN activities)
        /\ ScraperStart("s1", ActivityUrl(k, slash), "task", TRUE)
            => ((resp'.status = "skipped" /\ scr'["s1"].pc = "idle")
                <=> k \in DOMAIN activities)
        /\ (/\ scr["s1"].url = ActivityUrl(k, slash)
            /\ k \notin DOMAIN activities
            /\ ScraperCreate("s1", TRUE, TRUE))
            => /\ DOMAIN activities' = DOMAIN activities \cup {k}
               /\ activities'[k].activity_permalink = ActivityUrl(k, slash)]_vars

C36_Witness ==
    /\ "a1" \in DOMAIN activities
    /\ activities["a1"].activity_permalink = ActivityUrl("a1", TRUE)
    /\ resp.stage = "search" /\ resp.status = "success" /\ resp.arg[1] = 0
    /\ scrape_queue[ActivityUrl("a1", FALSE)] = 0
    /\ scrape_queue[ActivityUrl("a2", FALSE)] = 1

\* The number of pending search items.
RECURSIVE PendingIn(_, _)
PendingIn(queue, items) ==
    IF items = {} THEN 0
    ELSE LET item == CHOOSE x \in items : TRUE IN
         queue[item] + PendingIn(queue, items \ {item})

PendingSearches == PendingIn(search_queue, SearchItems)

\* No search invocation is running and no search item is pending.
SearchQuiet == SearchIdle /\ PendingSearches = 0

PausedAndDrained ==
    /\ resp.stage = "drain_queues"
    /\ resp.status = "success"
    /\ GateDisabled

\* C38: once a pause and then a drain have completed, the search and scrape
\* queues stay empty and no activity is created until resume is called,
\* whatever search and scrape invocations were in progress or queued.
C38_PausedAndDrainedStaysQuiet ==
    [][(PausedAndDrained /\ ~(\E ok \in BOOLEAN : resume_processing_handler(ok)))
        => /\ \A item \in SearchItems : search_queue'[item] = 0
           /\ \A u \in URLS : scrape_queue'[u] = 0
           /\ DOMAIN activities' = DOMAIN activities]_vars

====
